---------------------------- MODULE Spec2Model ----------------------------
(***************************************************************************)
(* A model of taskbit's client-side synchronisation core:                  *)
(*                                                                         *)
(*   - the history engine, hook useUndoRedo (src/unnamed/part_001:95-180), *)
(*   - the local-change tracker and the feed adapter, hook                 *)
(*     useRealtimeWorkspace (src/src/hooks/useRealtimeWorkspace.ts),       *)
(*   - the mutators and reconcilers of useWorkspace                        *)
(*     (src/src/hooks/useWorkspace.ts).                                    *)
(*                                                                         *)
(* React state (useState) is a variable; a ref (useRef) is a variable; a   *)
(* callback is an action.  Each call of a callback is one step taken with  *)
(* the closures of the latest render: the callers (Index.tsx, the debounce *)
(* timer) issue one call per event and list the callbacks in their         *)
(* dependency arrays.  Code that runs after an await is a separate step    *)
(* that reads what its closure captured when the call was made.            *)
(***************************************************************************)
EXTENDS Integers, Sequences, FiniteSets, TLC

VARIABLES
    \* ---- useUndoRedo
    history,        \* HistoryEntry[]: the snapshots (timestamps are never read)
    currentIndex,   \* the cursor, 0-based as in the code
    isUndoRedoRef,  \* the suppression flag
    maxHistory,     \* options.maxHistory
    trail,          \* observer: the latest calls of the hook, oldest first
    \* ---- useRealtimeWorkspace
    lastLocalChangeRef, \* the single local-change marker, or NoMarker
    now,                \* Date.now(), in ms
    ttrail,             \* observer: the latest calls of the tracker
    \* ---- useWorkspace
    user,           \* useAuth().user: the user id, or NoUser
    pages,          \* Page[], each with its Block[]
    activePageId,   \* the selected page id, or NoId
    calls,          \* the mutator calls whose remote write is in flight
    ncalls,         \* how many mutator calls have been made
    toasts,         \* the notifications shown so far (toast titles)
    isInitialLoadRef, \* the ref that holds the debounce effect back until a load
    timer,          \* the pending setTimeout of the debounce effect, or NoTimer
    loads,          \* the runs of loadWorkspace whose query is in flight
    channels,       \* the user ids of the feed channels that are subscribed
    mounted,        \* whether the component that uses the hook is mounted
    nauth,          \* how many times the user has changed
    observed,       \* observer: what happened to pages since the latest edit
    \* ---- the persistence service and its change feed
    dbPages,        \* table pages: id -> row
    dbBlocks,       \* table blocks: id -> row
    nids,           \* how many ids the tables have generated
    feed,           \* change events not yet delivered to this client
    nexternal,      \* how many writes other devices have made
    lastEvent       \* observer: the latest event delivered, and its fate

histVars == <<history, currentIndex, isUndoRedoRef, maxHistory, trail>>

trackerVars == <<lastLocalChangeRef, now, ttrail>>

wsVars == <<user, pages, activePageId, calls, ncalls, toasts>>

orchVars ==
    <<isInitialLoadRef, timer, loads, channels, mounted, nauth, observed>>

dbVars == <<dbPages, dbBlocks, nids, feed, nexternal, lastEvent>>

vars == <<histVars, trackerVars, wsVars, orchVars, dbVars>>

-----------------------------------------------------------------------------
(* Generic helpers *)

Min(a, b) == IF a <= b THEN a ELSE b

Last(s) == s[Len(s)]

\* JavaScript Array.prototype.slice(0, n) for 0 <= n
Slice0(s, n) == SubSeq(s, 1, Min(n, Len(s)))

-----------------------------------------------------------------------------
(* The history engine: useUndoRedo<T>(initialState, options) *)

\* The largest capacity the model configures (the code's default is 50).
MaxCapacity == 3

\* The snapshots T the model draws from.
Snapshots == {"s1", "s2"}

\* The value undo() and redo() return when there is nothing to do.
Null == "null"

\* history[i] of the code (0-based) is history[i + 1] here.
At(h, i) == h[i + 1]

\* setHistory's updater in pushState: truncate after the cursor, append,
\* drop the oldest entry when over capacity.
PushHistoryNoTruncate(prev, idx, newState, cap) ==
    LET newHistory == Append(prev, newState)
    IN  IF Len(newHistory) > cap THEN Tail(newHistory) ELSE newHistory

PushHistoryNoEvict(prev, idx, newState, cap) ==
    Append(Slice0(prev, idx + 1), newState)

PushHistory(prev, idx, newState, cap) ==
    LET newHistory == Append(Slice0(prev, idx + 1), newState)
    IN  IF Len(newHistory) > cap THEN Tail(newHistory) ELSE newHistory

\* setCurrentIndex's updater in pushState
PushIndexNoClamp(prev, cap) == prev + 1

PushIndex(prev, cap) == Min(prev + 1, cap - 1)

canUndo == currentIndex > 0

canRedo == currentIndex < Len(history) - 1

\* One entry of the observer: the call, its argument, its result and the
\* state it was made in.
Entry(op, arg, ret) ==
    [op |-> op, arg |-> arg, ret |-> ret,
     h |-> history, i |-> currentIndex, f |-> isUndoRedoRef]

Note(e) ==
    LET t == Append(trail, e)
    IN  IF Len(t) > 4 THEN Tail(t) ELSE t

pushState(newState) ==
    IF isUndoRedoRef
    THEN /\ isUndoRedoRef' = FALSE
         /\ trail' = Note(Entry("skip", newState, Null))
         /\ UNCHANGED <<history, currentIndex, maxHistory>>
    ELSE /\ history' = PushHistory(history, currentIndex, newState, maxHistory)
         /\ currentIndex' = PushIndex(currentIndex, maxHistory)
         /\ trail' = Note(Entry("push", newState, Null))
         /\ UNCHANGED <<isUndoRedoRef, maxHistory>>

undoKeepsFlag ==
    IF currentIndex <= 0
    THEN /\ trail' = Note(Entry("undoNull", Null, Null))
         /\ UNCHANGED <<history, currentIndex, isUndoRedoRef, maxHistory>>
    ELSE /\ currentIndex' = currentIndex - 1
         /\ trail' = Note(Entry("undo", Null, At(history, currentIndex - 1)))
         /\ UNCHANGED <<history, isUndoRedoRef, maxHistory>>

undoReturnsCurrent ==
    IF currentIndex <= 0
    THEN /\ trail' = Note(Entry("undoNull", Null, Null))
         /\ UNCHANGED <<history, currentIndex, isUndoRedoRef, maxHistory>>
    ELSE /\ isUndoRedoRef' = TRUE
         /\ currentIndex' = currentIndex - 1
         /\ trail' = Note(Entry("undo", Null, At(history, currentIndex)))
         /\ UNCHANGED <<history, maxHistory>>

undo ==
    IF currentIndex <= 0
    THEN /\ trail' = Note(Entry("undoNull", Null, Null))
         /\ UNCHANGED <<history, currentIndex, isUndoRedoRef, maxHistory>>
    ELSE /\ isUndoRedoRef' = TRUE
         /\ currentIndex' = currentIndex - 1
         /\ trail' = Note(Entry("undo", Null, At(history, currentIndex - 1)))
         /\ UNCHANGED <<history, maxHistory>>

redo ==
    IF currentIndex >= Len(history) - 1
    THEN /\ trail' = Note(Entry("redoNull", Null, Null))
         /\ UNCHANGED <<history, currentIndex, isUndoRedoRef, maxHistory>>
    ELSE /\ isUndoRedoRef' = TRUE
         /\ currentIndex' = currentIndex + 1
         /\ trail' = Note(Entry("redo", Null, At(history, currentIndex + 1)))
         /\ UNCHANGED <<history, maxHistory>>

reset(newState) ==
    /\ history' = <<newState>>
    /\ currentIndex' = 0
    /\ trail' = Note(Entry("reset", newState, Null))
    /\ UNCHANGED <<isUndoRedoRef, maxHistory>>

-----------------------------------------------------------------------------
(* The local-change tracker of useRealtimeWorkspace *)

\* "Consider it local if within 2 seconds"
LocalWindow == 2000

\* How many times the clock advances in a run.
MaxTicks == 2

\* lastLocalChangeRef.current = null
NoMarker == [table |-> "none", id |-> "none", timestamp |-> 0]

\* The marker markLocalChange(table, id) stores at time t.
markLocalChange(table, id, t) == [table |-> table, id |-> id, timestamp |-> t]

\* The result of isLocalChange(table, id) at time t with marker local.
isLocalChangeAnyEntity(local, table, id, t) ==
    /\ local # NoMarker
    /\ t - local.timestamp < LocalWindow

isLocalChangeAnyAge(local, table, id, t) ==
    /\ local # NoMarker
    /\ local.table = table /\ local.id = id

isLocalChange(local, table, id, t) ==
    /\ local # NoMarker
    /\ t - local.timestamp < LocalWindow
    /\ local.table = table /\ local.id = id

\* The marker isLocalChange(table, id) leaves behind.
consumeMarkerKeep(local, table, id, t) == local

consumeMarker(local, table, id, t) ==
    IF isLocalChange(local, table, id, t) THEN NoMarker ELSE local

\* The clock is read at 0, 100, 2000, 2100, 4000, ... ms: two readings are
\* 0, 100, 1900, 2000 or more ms apart.
TicksAt(t) == 2 * (t \div 2000) + (IF t % 2000 = 0 THEN 0 ELSE 1)

Tick ==
    /\ TicksAt(now) < MaxTicks
    /\ now' = IF now % 2000 = 0 THEN now + 100 ELSE now + 1900

\* The entities the tracker is exercised with on its own.
TrackerTables == {"pages", "blocks"}

TrackerIds == {"e1", "e2"}

TEntry(op, table, id, ret) ==
    [op |-> op, table |-> table, id |-> id, ret |-> ret, at |-> now,
     m |-> lastLocalChangeRef]

TNote(e) ==
    LET t == Append(ttrail, e)
    IN  IF Len(t) > 3 THEN Tail(t) ELSE t

-----------------------------------------------------------------------------
(* The document model and the reconcilers of useWorkspace *)

\* How many mutator calls, and how many writes of other devices, a run has.
MaxCalls == 1

MaxExternal == 1

NoUser == "none"

NoId == "none"

\* checked?: boolean, with undefined (null in the table) as a value
Undefined == "undefined"

\* gen_random_uuid(): the n-th id a table generates
NewPageId(n) == <<"p2", "p3", "p4", "p5", "p6", "p7">>[n]

NewBlockId(n) ==
    <<"b3", "b4", "b5", "b6", "b7", "b8", "b9", "b10", "b11", "b12", "b13",
      "b14", "b15", "b16", "b17", "b18", "b19", "b20">>[n]

\* Array.prototype.map
MapSeq(s, F(_)) == [i \in 1..Len(s) |-> F(s[i])]

\* { ...b, ...u }
Merge(b, u) ==
    [f \in DOMAIN b \cup DOMAIN u |-> IF f \in DOMAIN u THEN u[f] ELSE b[f]]

\* Array.prototype.findIndex(x => x.id === id): 0-based, -1 when absent
FindIndex(s, id) ==
    IF \E i \in 1..Len(s) : s[i].id = id
    THEN (CHOOSE i \in 1..Len(s) :
            /\ s[i].id = id
            /\ \A j \in 1..(i - 1) : s[j].id # id) - 1
    ELSE -1

\* splice(k, 0, x) on a copy: x inserted before the element at 0-based k
InsertAt(s, k, x) == SubSeq(s, 1, k) \o <<x>> \o SubSeq(s, k + 1, Len(s))

\* splice(k, 1) on a copy
RemoveAt(s, k) == SubSeq(s, 1, k) \o SubSeq(s, k + 2, Len(s))

\* arrayMove of @dnd-kit/sortable, as handleDragEnd uses it
arrayMove(s, from, to) == InsertAt(RemoveAt(s, from), to, s[from + 1])

Ids(s) == {s[i].id : i \in 1..Len(s)}

\* The Page the hook builds from a pages row and its blocks.
Page(id, title, icon, blocks) ==
    [id |-> id, title |-> title, icon |-> icon, blocks |-> blocks]

\* The Block the hook builds from a blocks row.
Block(id, type, content, checked) ==
    [id |-> id, type |-> type, content |-> content, checked |-> checked]

\* a page reconciler that ignores the fields an UPDATE event carries
handlePageChangeKeepsLocal(prev, type, page) ==
    IF type = "DELETE"
    THEN SelectSeq(prev, LAMBDA p : p.id # page.id)
    ELSE prev

\* handlePageChange's setPages updater
handlePageChange(prev, type, page) ==
    IF type = "DELETE"
    THEN SelectSeq(prev, LAMBDA p : p.id # page.id)
    ELSE IF type = "INSERT"
    THEN prev
    ELSE MapSeq(prev, LAMBDA p : IF p.id = page.id THEN Merge(p, page) ELSE p)

\* handleBlockChange's setPages updater
handleBlockChangeKeepsLocal(prev, type, pageId, block) ==
    MapSeq(prev, LAMBDA page :
        IF page.id # pageId THEN page
        ELSE IF type = "DELETE"
        THEN [page EXCEPT !.blocks =
                 SelectSeq(page.blocks, LAMBDA b : b.id # block.id)]
        ELSE IF block.id \in Ids(page.blocks) THEN page
        ELSE [page EXCEPT !.blocks = Append(page.blocks, block)])

handleBlockChange(prev, type, pageId, block) ==
    MapSeq(prev, LAMBDA page :
        IF page.id # pageId THEN page
        ELSE IF type = "DELETE"
        THEN [page EXCEPT !.blocks =
                 SelectSeq(page.blocks, LAMBDA b : b.id # block.id)]
        ELSE IF type = "INSERT"
        THEN IF block.id \in Ids(page.blocks) THEN page
             ELSE [page EXCEPT !.blocks = Append(page.blocks, block)]
        ELSE [page EXCEPT !.blocks =
                 MapSeq(page.blocks, LAMBDA b :
                     IF b.id = block.id THEN Merge(b, block) ELSE b)])

-----------------------------------------------------------------------------
(* The mutators of useWorkspace: the part of each call that runs before its
   first await.  A call in flight is a record of what the rest of the call
   needs: its arguments and what its closure captured. *)

\* Values the callers pass in
Titles == {"T1"}

Icons == {"star"}

BlockTypes == {"text", "checklist"}

BlockUpdates == {[content |-> "A"], [checked |-> "true"], [collapsed |-> "true"]}

NoRow == [id |-> NoId]

NewCall(kind, pageId, blockId, arg) ==
    [kind |-> kind, stage |-> "sent", ok |-> TRUE, at |-> now,
     pageId |-> pageId, blockId |-> blockId, arg |-> arg,
     row |-> NoRow, row2 |-> NoRow]

Issue(c) == /\ calls' = (ncalls + 1 :> c) @@ calls
            /\ ncalls' = ncalls + 1
            /\ toasts' = toasts

Drop(cid) == [c \in DOMAIN calls \ {cid} |-> calls[c]]

PageOf(ps, pageId) == ps[FindIndex(ps, pageId) + 1]

\* The blocks of page pageId in ps, none if the page is not there.
BlocksOf(ps, pageId) ==
    IF pageId \in Ids(ps) THEN PageOf(ps, pageId).blocks ELSE <<>>

createPage ==
    /\ user # NoUser
    /\ Issue(NewCall("createPage", NoId, NoId, [position |-> Len(pages)]))
    /\ UNCHANGED <<user, pages, activePageId, lastLocalChangeRef>>

deletePage(pageId) ==
    /\ user # NoUser
    /\ lastLocalChangeRef' = markLocalChange("pages", pageId, now)
    /\ Issue(NewCall("deletePage", pageId, NoId,
                     [activePageId |-> activePageId]))
    /\ UNCHANGED <<user, pages, activePageId>>

updatePageTitle(pageId, title) ==
    /\ user # NoUser
    /\ pages' = MapSeq(pages, LAMBDA p :
                    IF p.id = pageId THEN [p EXCEPT !.title = title] ELSE p)
    /\ lastLocalChangeRef' = markLocalChange("pages", pageId, now)
    /\ Issue(NewCall("updatePageTitle", pageId, NoId, [title |-> title]))
    /\ UNCHANGED <<user, activePageId>>

updatePageIcon(pageId, icon) ==
    /\ user # NoUser
    /\ pages' = MapSeq(pages, LAMBDA p :
                    IF p.id = pageId THEN [p EXCEPT !.icon = icon] ELSE p)
    /\ lastLocalChangeRef' = markLocalChange("pages", pageId, now)
    /\ Issue(NewCall("updatePageIcon", pageId, NoId, [icon |-> icon]))
    /\ UNCHANGED <<user, activePageId>>

\* let position = page.blocks.length; if (afterBlockId) { ... index + 1 }
AddPosition(page, afterBlockId) ==
    IF afterBlockId # NoId /\ FindIndex(page.blocks, afterBlockId) >= 0
    THEN FindIndex(page.blocks, afterBlockId) + 1
    ELSE Len(page.blocks)

addBlock(pageId, type, afterBlockId) ==
    /\ user # NoUser
    /\ pageId \in Ids(pages)
    /\ Issue(NewCall("addBlock", pageId, NoId,
                     [type |-> type, afterBlockId |-> afterBlockId,
                      position |-> AddPosition(PageOf(pages, pageId),
                                               afterBlockId)]))
    /\ UNCHANGED <<user, pages, activePageId, lastLocalChangeRef>>

\* dbUpdates of updateBlock, without updated_at
DbUpdates(updates) ==
    [f \in DOMAIN updates \cap {"content", "type", "checked"} |-> updates[f]]

updateBlock(pageId, blockId, updates) ==
    /\ user # NoUser
    /\ pages' = MapSeq(pages, LAMBDA p :
                    IF p.id # pageId THEN p
                    ELSE [p EXCEPT !.blocks = MapSeq(p.blocks, LAMBDA b :
                             IF b.id = blockId THEN Merge(b, updates) ELSE b)])
    /\ lastLocalChangeRef' = markLocalChange("blocks", blockId, now)
    /\ Issue([updates |-> updates]
             @@ NewCall("updateBlock", pageId, blockId, DbUpdates(updates)))
    /\ UNCHANGED <<user, activePageId>>

deleteBlock(pageId, blockId) ==
    /\ user # NoUser
    /\ pages' = MapSeq(pages, LAMBDA p :
                    IF p.id # pageId THEN p
                    ELSE [p EXCEPT !.blocks =
                             SelectSeq(p.blocks, LAMBDA b : b.id # blockId)])
    /\ lastLocalChangeRef' = markLocalChange("blocks", blockId, now)
    /\ Issue(NewCall("deleteBlock", pageId, blockId, [none |-> NoId]))
    /\ UNCHANGED <<user, activePageId>>

reorderBlocks(pageId, reorderedBlocks) ==
    /\ user # NoUser
    /\ pages' = MapSeq(pages, LAMBDA p :
                    IF p.id = pageId THEN [p EXCEPT !.blocks = reorderedBlocks]
                    ELSE p)
    /\ Issue(NewCall("reorderBlocks", pageId, NoId,
                     [rows |-> reorderedBlocks]))
    /\ UNCHANGED <<user, activePageId, lastLocalChangeRef>>

-----------------------------------------------------------------------------
(* The persistence service: it executes a write some time after the call
   was issued, or fails; a write that changes a row puts one event per row
   on the change feed.  An event carries, for the properties only, the call
   it stems from (0: another device) and when that call issued the write. *)

Event(table, type, id, pageId, row, origin, at) ==
    [table |-> table, type |-> type, id |-> id, page_id |-> pageId,
     row |-> row, origin |-> origin, at |-> at]

PageRow(userId, title, icon, position) ==
    [user_id |-> userId, title |-> title, icon |-> icon, position |-> position]

BlockRow(userId, pageId, type, content, checked, position) ==
    [user_id |-> userId, page_id |-> pageId, type |-> type, content |-> content,
     checked |-> checked, position |-> position]

Without(f, ids) == [x \in DOMAIN f \ ids |-> f[x]]

\* The ids of a set as a sequence, in the order the table deletes them.
RECURSIVE SeqOf(_)
SeqOf(S) ==
    IF S = {} THEN <<>>
    ELSE LET x == CHOOSE y \in S : TRUE IN <<x>> \o SeqOf(S \ {x})

BlockEvent(type, id, origin, at, db) ==
    [user_id |-> db[id].user_id]
        @@ Event("blocks", type, id, db[id].page_id,
                 [type |-> db[id].type, content |-> db[id].content,
                  checked |-> db[id].checked], origin, at)

PageEvent(type, id, origin, at, db) ==
    [user_id |-> db[id].user_id]
        @@ Event("pages", type, id, NoId,
                 [title |-> db[id].title, icon |-> db[id].icon], origin, at)

\* .from('blocks').upsert(updates, { onConflict: 'id' })
UpsertedFromOne(db, pageId, rows) ==
    [id \in DOMAIN db \cup Ids(rows) |->
        IF id \in Ids(rows)
        THEN LET k == FindIndex(rows, id)
             IN  BlockRow(user, pageId, rows[k + 1].type, rows[k + 1].content,
                          rows[k + 1].checked, k + 1)
        ELSE db[id]]

Upserted(db, pageId, rows) ==
    [id \in DOMAIN db \cup Ids(rows) |->
        IF id \in Ids(rows)
        THEN LET k == FindIndex(rows, id)
             IN  BlockRow(user, pageId, rows[k + 1].type, rows[k + 1].content,
                          rows[k + 1].checked, k)
        ELSE db[id]]

Replied(c) == IF c.stage = "sent" THEN "replied" ELSE "replied2"

Fails(cid) ==
    /\ calls' = [calls EXCEPT ![cid].stage = Replied(calls[cid]),
                              ![cid].ok = FALSE]
    /\ UNCHANGED <<dbPages, dbBlocks, nids, feed>>

Succeeds(cid, row) ==
    calls' = [calls EXCEPT ![cid].stage = Replied(calls[cid]),
                           ![cid].ok = TRUE,
                           ![cid].row = IF calls[cid].stage = "sent"
                                        THEN row ELSE @,
                           ![cid].row2 = IF calls[cid].stage = "sent"
                                         THEN @ ELSE row]

InsertPage(cid) ==
    LET c == calls[cid]
        id == NewPageId(nids.pages + 1)
        db == (id :> PageRow(user, "Untitled", "doc", c.arg.position)) @@ dbPages
    IN  /\ dbPages' = db
        /\ nids' = [nids EXCEPT !.pages = @ + 1]
        /\ feed' = Append(feed, PageEvent("INSERT", id, cid, c.at, db))
        /\ Succeeds(cid, [id |-> id, title |-> "Untitled", icon |-> "doc"])
        /\ UNCHANGED dbBlocks

InsertBlock(cid, pageId, type, checked, position) ==
    LET c == calls[cid]
        id == NewBlockId(nids.blocks + 1)
        db == (id :> BlockRow(user, pageId, type, "", checked, position)) @@ dbBlocks
    IN  IF pageId \notin DOMAIN dbPages
        THEN Fails(cid)
        ELSE /\ dbBlocks' = db
             /\ nids' = [nids EXCEPT !.blocks = @ + 1]
             /\ feed' = Append(feed, BlockEvent("INSERT", id, cid, c.at, db))
             /\ Succeeds(cid, Block(id, type, "", checked))
             /\ UNCHANGED dbPages

DeletePageRow(cid) ==
    LET c == calls[cid]
        cascade == {b \in DOMAIN dbBlocks : dbBlocks[b].page_id = c.pageId}
        gone == SeqOf(cascade)
    IN  /\ Succeeds(cid, NoRow)
        /\ IF c.pageId \in DOMAIN dbPages
           THEN /\ dbPages' = Without(dbPages, {c.pageId})
                /\ dbBlocks' = Without(dbBlocks, cascade)
                /\ feed' = feed
                      \o <<PageEvent("DELETE", c.pageId, cid, c.at, dbPages)>>
                      \o MapSeq(gone, LAMBDA b :
                            BlockEvent("DELETE", b, cid, c.at, dbBlocks))
           ELSE UNCHANGED <<dbPages, dbBlocks, feed>>
        /\ UNCHANGED nids

UpdatePageRow(cid) ==
    LET c == calls[cid]
        db == [dbPages EXCEPT ![c.pageId] = Merge(@, c.arg)]
    IN  /\ Succeeds(cid, NoRow)
        /\ IF c.pageId \in DOMAIN dbPages
           THEN /\ dbPages' = db
                /\ feed' = Append(feed, PageEvent("UPDATE", c.pageId, cid, c.at, db))
           ELSE UNCHANGED <<dbPages, feed>>
        /\ UNCHANGED <<dbBlocks, nids>>

UpdateBlockRow(cid) ==
    LET c == calls[cid]
        db == [dbBlocks EXCEPT ![c.blockId] = Merge(@, c.arg)]
    IN  /\ Succeeds(cid, NoRow)
        /\ IF c.blockId \in DOMAIN dbBlocks
           THEN /\ dbBlocks' = db
                /\ feed' = Append(feed, BlockEvent("UPDATE", c.blockId, cid, c.at, db))
           ELSE UNCHANGED <<dbBlocks, feed>>
        /\ UNCHANGED <<dbPages, nids>>

DeleteBlockRow(cid) ==
    LET c == calls[cid]
    IN  /\ Succeeds(cid, NoRow)
        /\ IF c.blockId \in DOMAIN dbBlocks
           THEN /\ dbBlocks' = Without(dbBlocks, {c.blockId})
                /\ feed' = Append(feed, BlockEvent("DELETE", c.blockId, cid, c.at, dbBlocks))
           ELSE UNCHANGED <<dbBlocks, feed>>
        /\ UNCHANGED <<dbPages, nids>>

UpsertBlockRows(cid) ==
    LET c == calls[cid]
        db == Upserted(dbBlocks, c.pageId, c.arg.rows)
    IN  IF c.pageId \notin DOMAIN dbPages
        THEN Fails(cid)
        ELSE /\ Succeeds(cid, NoRow)
             /\ dbBlocks' = db
             /\ feed' = feed \o MapSeq(c.arg.rows, LAMBDA b :
                           BlockEvent(IF b.id \in DOMAIN dbBlocks
                                      THEN "UPDATE" ELSE "INSERT",
                                      b.id, cid, c.at, db))
             /\ UNCHANGED <<dbPages, nids>>

\* The service executes the write of call cid.
Execute(cid) ==
    LET c == calls[cid]
    IN  CASE c.kind = "createPage" /\ c.stage = "sent" -> InsertPage(cid)
          [] c.kind = "createPage" /\ c.stage = "sent2" ->
                InsertBlock(cid, c.row.id, "heading1", Undefined, 0)
          [] c.kind = "deletePage" -> DeletePageRow(cid)
          [] c.kind \in {"updatePageTitle", "updatePageIcon"} -> UpdatePageRow(cid)
          [] c.kind = "addBlock" ->
                InsertBlock(cid, c.pageId, c.arg.type,
                            IF c.arg.type = "checklist" THEN "false" ELSE Undefined,
                            c.arg.position)
          [] c.kind = "updateBlock" -> UpdateBlockRow(cid)
          [] c.kind = "deleteBlock" -> DeleteBlockRow(cid)
          [] c.kind = "reorderBlocks" -> UpsertBlockRows(cid)

-----------------------------------------------------------------------------
(* The rest of each mutator: what runs when the awaited write has returned *)

\* deletePage's setPages updater and the setActivePageId calls inside it;
\* active is the activePageId the callback captured.
AfterDeletePage(prev, current, active, pageId) ==
    LET filtered == SelectSeq(prev, LAMBDA p : p.id # pageId)
    IN  [pages |-> filtered,
         activePageId |-> IF active = pageId /\ Len(filtered) > 0
                          THEN filtered[1].id
                          ELSE IF Len(filtered) = 0 THEN NoId ELSE current]

\* addBlock's setPages updater
AfterAddBlock(prev, pageId, afterBlockId, newBlock) ==
    MapSeq(prev, LAMBDA p :
        IF p.id # pageId THEN p
        ELSE IF afterBlockId = NoId
        THEN [p EXCEPT !.blocks = Append(p.blocks, newBlock)]
        ELSE [p EXCEPT !.blocks =
                 InsertAt(p.blocks, FindIndex(p.blocks, afterBlockId) + 1,
                          newBlock)])

\* The title of the toast the catch block of a mutator shows; updatePageTitle,
\* updatePageIcon and updateBlock only write to the console.
NoToast == "none"

ToastOf(kind) ==
    CASE kind = "createPage" -> "Error creating page"
      [] kind = "deletePage" -> "Error deleting page"
      [] kind = "addBlock" -> "Error adding block"
      [] kind = "deleteBlock" -> "Error deleting block"
      [] kind = "reorderBlocks" -> "Error reordering blocks"
      [] OTHER -> NoToast

\* The rows of S in the order of their position column.
RECURSIVE InOrder(_, _)
InOrder(db, S) ==
    IF S = {} THEN <<>>
    ELSE LET x == CHOOSE y \in S : \A z \in S : db[y].position <= db[z].position
         IN  <<x>> \o InOrder(db, S \ {x})

\* The pages as loadWorkspace reads them from the tables.
AfterFailureRefetches(prev, c) ==
    MapSeq(InOrder(dbPages, DOMAIN dbPages), LAMBDA p :
        Page(p, dbPages[p].title, dbPages[p].icon,
             MapSeq(InOrder(dbBlocks,
                            {b \in DOMAIN dbBlocks : dbBlocks[b].page_id = p}),
                    LAMBDA b : Block(b, dbBlocks[b].type, dbBlocks[b].content,
                                     dbBlocks[b].checked))))

\* The local pages after the catch block of call c: it logs, and some
\* mutators show a toast; none touches the pages.
AfterFailure(prev, c) == prev

Resume(cid) ==
    LET c == calls[cid]
    IN  /\ c.stage \in {"replied", "replied2"}
        /\ ncalls' = ncalls
        /\ user' = user
        /\ toasts' = IF ~c.ok /\ ToastOf(c.kind) # NoToast
                      THEN Append(toasts, ToastOf(c.kind))
                      ELSE toasts
        /\ IF ~c.ok
           THEN /\ calls' = Drop(cid)
                /\ pages' = AfterFailure(pages, c)
                /\ UNCHANGED <<activePageId, lastLocalChangeRef>>
           ELSE CASE c.kind = "createPage" /\ c.stage = "replied" ->
                       /\ lastLocalChangeRef' =
                              markLocalChange("pages", c.row.id, now)
                       /\ calls' = [calls EXCEPT ![cid].stage = "sent2",
                                                 ![cid].at = now]
                       /\ UNCHANGED <<pages, activePageId>>
                  [] c.kind = "createPage" /\ c.stage = "replied2" ->
                       /\ lastLocalChangeRef' =
                              markLocalChange("blocks", c.row2.id, now)
                       /\ pages' = Append(pages,
                              Page(c.row.id, c.row.title, c.row.icon,
                                   <<Block(c.row2.id, c.row2.type,
                                           c.row2.content, Undefined)>>))
                       /\ activePageId' = c.row.id
                       /\ calls' = Drop(cid)
                  [] c.kind = "deletePage" ->
                       /\ pages' = AfterDeletePage(pages, activePageId,
                              c.arg.activePageId, c.pageId).pages
                       /\ activePageId' = AfterDeletePage(pages, activePageId,
                              c.arg.activePageId, c.pageId).activePageId
                       /\ calls' = Drop(cid)
                       /\ UNCHANGED lastLocalChangeRef
                  [] c.kind = "addBlock" ->
                       /\ lastLocalChangeRef' =
                              markLocalChange("blocks", c.row.id, now)
                       /\ pages' = AfterAddBlock(pages, c.pageId,
                                                 c.arg.afterBlockId, c.row)
                       /\ calls' = Drop(cid)
                       /\ UNCHANGED activePageId
                  [] OTHER ->
                       /\ calls' = Drop(cid)
                       /\ UNCHANGED <<pages, activePageId, lastLocalChangeRef>>

-----------------------------------------------------------------------------
(* The feed adapter of useRealtimeWorkspace: the two postgres_changes
   handlers, applied to the oldest undelivered event *)

NoEvent == [table |-> "none", type |-> "none", id |-> "none", origin |-> 0,
            sent |-> 0, passed |-> FALSE, at |-> 0]

\* change.page / change.block as the handlers build them
\* (the id and the row's fields; a DELETE carries the id alone)
Change(e) ==
    IF e.type = "DELETE" THEN [id |-> e.id] ELSE [id |-> e.id] @@ e.row

Reconciled(prev, e) ==
    IF e.table = "pages"
    THEN handlePageChange(prev, e.type, Change(e))
    ELSE handleBlockChange(prev, e.type, e.page_id, Change(e))

OnEvent ==
    /\ feed # <<>>
    /\ Head(feed).user_id \in channels
    /\ LET e == Head(feed)
           local == isLocalChange(lastLocalChangeRef, e.table, e.id, now)
       IN  /\ lastLocalChangeRef' =
                  consumeMarker(lastLocalChangeRef, e.table, e.id, now)
           /\ pages' = IF local THEN pages ELSE Reconciled(pages, e)
           /\ lastEvent' = [table |-> e.table, type |-> e.type, id |-> e.id,
                            origin |-> e.origin, sent |-> e.at,
                            passed |-> ~local, at |-> now]
    /\ feed' = Tail(feed)

-----------------------------------------------------------------------------
(* The workspace orchestrator: history recording, undo and redo *)

\* setTimeout(..., 500) of the debounce effect
DebounceDelay == 500

NoTimer == [armed |-> FALSE]

NoObservation ==
    [op |-> "none", before |-> <<>>, fires |-> -1, dirty |-> TRUE,
     recorded |-> FALSE]

\* useUndoRedo<Page[]>([]): options is not passed, maxHistory is the default
DefaultMaxHistory == 50

\* How many edits the user makes, and how many times undo or redo restore
\* a snapshot (each shows a notification).
MaxEdits == 2

MaxToasts == 2

\* How long a history the model lets the timer build.
MaxRecorded == 4

\* The debounce effect, which runs when pages or pushHistoryState (that is,
\* currentIndex) has changed: the cleanup clears the pending timer and the
\* body sets a new one for the pages of this render, unless no load has
\* finished yet or there is no page.
DebounceEffect(ps, initial) ==
    IF initial \/ Len(ps) = 0
    THEN NoTimer
    ELSE [armed |-> TRUE, state |-> ps, delay |-> DebounceDelay]

\* The timer's callback, DebounceDelay after the effect ran with nothing
\* clearing it: pushHistoryState(pages), and the effect again when the call
\* moved the cursor.
OnTimer ==
    /\ timer.armed
    /\ pushState(timer.state)
    /\ timer' = IF currentIndex' # currentIndex
                THEN DebounceEffect(pages, isInitialLoadRef)
                ELSE NoTimer
    /\ observed' = [observed EXCEPT !.op = "fire", !.dirty = FALSE,
                       !.fires = IF @ < 0 THEN @ ELSE Min(@ + 1, 2)]

\* an undo that also drops the selection
WorkspaceUndoDeselects ==
    /\ undo
    /\ IF currentIndex <= 0
       THEN UNCHANGED <<pages, toasts, timer, activePageId>>
       ELSE /\ pages' = At(history, currentIndex - 1)
            /\ activePageId' = NoId
            /\ toasts' = Append(toasts, "Undo")
            /\ timer' = DebounceEffect(pages', isInitialLoadRef)
    /\ observed' = [observed EXCEPT !.op = "undo", !.fires = -1,
                       !.dirty = @ \/ currentIndex > 0]

\* undo of useWorkspace
WorkspaceUndo ==
    /\ undo
    /\ IF currentIndex <= 0
       THEN UNCHANGED <<pages, toasts, timer, activePageId>>
       ELSE /\ pages' = At(history, currentIndex - 1)
            /\ activePageId' = activePageId
            /\ toasts' = Append(toasts, "Undo")
            /\ timer' = DebounceEffect(pages', isInitialLoadRef)
    /\ observed' = [observed EXCEPT !.op = "undo", !.fires = -1,
                       !.dirty = @ \/ currentIndex > 0]

\* redo of useWorkspace
WorkspaceRedo ==
    /\ redo
    /\ IF currentIndex >= Len(history) - 1
       THEN UNCHANGED <<pages, toasts, timer, activePageId>>
       ELSE /\ pages' = At(history, currentIndex + 1)
            /\ activePageId' = activePageId
            /\ toasts' = Append(toasts, "Redo")
            /\ timer' = DebounceEffect(pages', isInitialLoadRef)
    /\ observed' = [observed EXCEPT !.op = "redo", !.fires = -1,
                       !.dirty = @ \/ currentIndex < Len(history) - 1]

-----------------------------------------------------------------------------
(* Identity: the feed subscription and the load of the workspace.  Both are
   effects that run when the user changes; a state change and the effects
   that depend on it are one step. *)

\* How many runs of loadWorkspace can be in flight at once, and how many
\* of them fail.
MaxLoads == 2

MaxFailures == 1

\* How many times the user changes.
MaxChanges == 3

\* The subscription effect of useRealtimeWorkspace when userId changes from
\* oldUserId to newUserId: the cleanup of the previous run unsubscribes its
\* channel, then the body subscribes a channel filtered by the new user id.
\* A run without a user id subscribes nothing and returns no cleanup.
SubscriptionEffectKeepsOld(chs, oldUserId, newUserId) ==
    IF newUserId = NoUser THEN chs ELSE chs \cup {newUserId}

SubscriptionEffect(chs, oldUserId, newUserId) ==
    LET cleaned == IF oldUserId = NoUser THEN chs ELSE chs \ {oldUserId}
    IN  IF newUserId = NoUser THEN cleaned ELSE cleaned \cup {newUserId}

\* getDefaultBlocks()
getDefaultBlocks ==
    << [type |-> "heading1", content |-> "Welcome to your workspace",
        checked |-> Undefined],
       [type |-> "text",
        content |-> "This is your personal workspace. Start writing, organizing, and building your ideas.",
        checked |-> Undefined],
       [type |-> "heading2", content |-> "Getting started",
        checked |-> Undefined],
       [type |-> "checklist", content |-> "Create your first page",
        checked |-> "false"],
       [type |-> "checklist", content |-> "Add some blocks",
        checked |-> "false"],
       [type |-> "checklist", content |-> "Organize your thoughts",
        checked |-> "false"],
       [type |-> "divider", content |-> "", checked |-> Undefined],
       [type |-> "text",
        content |-> "Click the + button to add new blocks, or press / to see options.",
        checked |-> Undefined] >>

\* .from('pages').select('*').eq('user_id', user.id).order('position')
PagesData(userId) ==
    MapSeq(InOrder(dbPages, {p \in DOMAIN dbPages : dbPages[p].user_id = userId}),
           LAMBDA p : [id |-> p, title |-> dbPages[p].title,
                       icon |-> dbPages[p].icon])

\* .from('blocks').select('*').eq('user_id', user.id).order('position'),
\* and the mapping of both results to Page[]
LoadedPages(pagesData, userId) ==
    MapSeq(pagesData, LAMBDA dbPage :
        Page(dbPage.id, dbPage.title, dbPage.icon,
             MapSeq(InOrder(dbBlocks,
                            {b \in DOMAIN dbBlocks :
                                /\ dbBlocks[b].user_id = userId
                                /\ dbBlocks[b].page_id = dbPage.id}),
                    LAMBDA b : Block(b, dbBlocks[b].type, dbBlocks[b].content,
                                     dbBlocks[b].checked))))

\* One run of loadWorkspace: the user and the activePageId its closure
\* captured, and the await it is at.
NewLoad(userId) ==
    [user |-> userId, activePageId |-> activePageId, stage |-> "pages",
     pagesData |-> <<>>, dbPage |-> NoId]

\* The timer after setPages of a load.  The debounce effect of that render
\* runs after the finally block has cleared isInitialLoadRef when React
\* batches the updates made after an await, and before it when React renders
\* each of them at once.
TimersAfterLoad(ps) ==
    {DebounceEffect(ps, FALSE), DebounceEffect(ps, isInitialLoadRef)}

\* The load effect of useWorkspace and the subscription effect, run because
\* the user has become userId.
OnUserChange(userId) ==
    /\ user' = userId
    /\ channels' = SubscriptionEffect(channels, user, userId)
    /\ IF userId = NoUser
       THEN /\ pages' = <<>>
            /\ activePageId' = NoId
            /\ timer' = NoTimer
            /\ UNCHANGED loads
       ELSE /\ loads' = Append(loads, NewLoad(userId))
            /\ UNCHANGED <<pages, activePageId, timer>>
    /\ UNCHANGED <<isInitialLoadRef, mounted, calls, ncalls, toasts>>

\* The pages query of load k returns.
OnPagesData(k) ==
    LET l == loads[k]
        data == PagesData(l.user)
    IN  /\ l.stage = "pages"
        /\ loads' = [loads EXCEPT ![k].pagesData = data,
                         ![k].stage = IF data = <<>> THEN "insertPage"
                                                     ELSE "blocks"]

\* The blocks query of load k returns: setPages, resetHistory,
\* setActivePageId when the closure saw no active page, and the finally
\* block.
OnBlocksData(k) ==
    LET l == loads[k]
        loadedPages == LoadedPages(l.pagesData, l.user)
    IN  /\ l.stage = "blocks"
        /\ pages' = loadedPages
        /\ reset(loadedPages)
        /\ activePageId' = IF l.activePageId = NoId /\ Len(loadedPages) > 0
                           THEN loadedPages[1].id
                           ELSE activePageId
        /\ timer' \in TimersAfterLoad(loadedPages)
        /\ isInitialLoadRef' = FALSE
        /\ loads' = RemoveAt(loads, k - 1)

\* createDefaultPage of load k: the insert of the welcome page is executed.
OnDefaultPage(k) ==
    LET l == loads[k]
        id == NewPageId(nids.pages + 1)
        db == (id :> PageRow(l.user, "Welcome to Workspace", "wave", 0))
                  @@ dbPages
    IN  /\ l.stage = "insertPage"
        /\ dbPages' = db
        /\ nids' = [nids EXCEPT !.pages = @ + 1]
        /\ feed' = Append(feed, PageEvent("INSERT", id, -1, now, db))
        /\ loads' = [loads EXCEPT ![k].stage = "insertBlocks", ![k].dbPage = id]

\* createDefaultPage of load k: the insert of the default blocks is
\* executed and returns; setPages([newPage]), resetHistory, setActivePageId,
\* and the finally blocks.
OnDefaultBlocks(k) ==
    LET l == loads[k]
        n == Len(getDefaultBlocks)
        ids == [j \in 1..n |-> NewBlockId(nids.blocks + j)]
        db == [b \in {ids[j] : j \in 1..n} |->
                  LET j == CHOOSE x \in 1..n : ids[x] = b
                  IN  BlockRow(l.user, l.dbPage, getDefaultBlocks[j].type,
                               getDefaultBlocks[j].content,
                               getDefaultBlocks[j].checked, j - 1)] @@ dbBlocks
        newPage == Page(l.dbPage, dbPages[l.dbPage].title, dbPages[l.dbPage].icon,
                        [j \in 1..n |->
                            Block(ids[j], getDefaultBlocks[j].type,
                                  getDefaultBlocks[j].content,
                                  getDefaultBlocks[j].checked)])
    IN  /\ l.stage = "insertBlocks"
        /\ dbBlocks' = db
        /\ nids' = [nids EXCEPT !.blocks = @ + n]
        /\ feed' = feed \o [j \in 1..n |-> BlockEvent("INSERT", ids[j], -1, now, db)]
        /\ pages' = <<newPage>>
        /\ reset(<<newPage>>)
        /\ activePageId' = newPage.id
        /\ timer' \in TimersAfterLoad(<<newPage>>)
        /\ isInitialLoadRef' = FALSE
        /\ loads' = RemoveAt(loads, k - 1)

\* A query or an insert of load k fails: the catch block shows a toast, and
\* the finally block of loadWorkspace runs.
OnLoadError(k) ==
    /\ toasts' = Append(toasts, IF loads[k].stage \in {"pages", "blocks"}
                                THEN "Error loading workspace"
                                ELSE "Error creating workspace")
    /\ isInitialLoadRef' = FALSE
    /\ loads' = RemoveAt(loads, k - 1)

\* The component unmounts: the cleanups of the subscription effect and of
\* the debounce effect run.
OnUnmount ==
    /\ mounted' = FALSE
    /\ channels' = SubscriptionEffect(channels, user, NoUser)
    /\ timer' = NoTimer

-----------------------------------------------------------------------------
(* Specifications *)

\* The history engine alone, from useUndoRedo(initialState, {maxHistory}):
\* any sequence of calls of its four operations.
InitHistory ==
    /\ maxHistory \in 1..MaxCapacity
    /\ \E initialState \in Snapshots : history = <<initialState>>
    /\ currentIndex = 0
    /\ isUndoRedoRef = FALSE
    /\ trail = <<>>
    /\ lastLocalChangeRef = NoMarker
    /\ now = 0
    /\ ttrail = <<>>
    /\ user = NoUser
    /\ pages = <<>>
    /\ activePageId = NoId
    /\ calls = <<>>
    /\ ncalls = 0
    /\ toasts = <<>>
    /\ dbPages = <<>>
    /\ dbBlocks = <<>>
    /\ nids = [pages |-> 0, blocks |-> 0]
    /\ feed = <<>>
    /\ nexternal = 0
    /\ lastEvent = NoEvent
    /\ isInitialLoadRef = TRUE
    /\ timer = NoTimer
    /\ loads = <<>>
    /\ channels = {}
    /\ mounted = TRUE
    /\ nauth = 0
    /\ observed = NoObservation

CallPushState ==
    /\ \E x \in Snapshots : pushState(x)
    /\ UNCHANGED <<orchVars, trackerVars, wsVars, dbVars>>

CallUndo == undo /\ UNCHANGED <<orchVars, trackerVars, wsVars, dbVars>>

CallRedo == redo /\ UNCHANGED <<orchVars, trackerVars, wsVars, dbVars>>

CallReset ==
    /\ \E x \in Snapshots : reset(x)
    /\ UNCHANGED <<orchVars, trackerVars, wsVars, dbVars>>

HistNext ==
    \/ CallPushState
    \/ CallUndo
    \/ CallRedo
    \/ CallReset

SpecHistory == InitHistory /\ [][HistNext]_vars

\* The tracker alone, from the first render of useRealtimeWorkspace: any
\* sequence of markLocalChange and isLocalChange calls as time passes.
InitTracker ==
    /\ lastLocalChangeRef = NoMarker
    /\ now = 0
    /\ ttrail = <<>>
    /\ maxHistory = 1
    /\ history = <<"s1">>
    /\ currentIndex = 0
    /\ isUndoRedoRef = FALSE
    /\ trail = <<>>
    /\ user = NoUser
    /\ pages = <<>>
    /\ activePageId = NoId
    /\ calls = <<>>
    /\ ncalls = 0
    /\ toasts = <<>>
    /\ dbPages = <<>>
    /\ dbBlocks = <<>>
    /\ nids = [pages |-> 0, blocks |-> 0]
    /\ feed = <<>>
    /\ nexternal = 0
    /\ lastEvent = NoEvent
    /\ isInitialLoadRef = TRUE
    /\ timer = NoTimer
    /\ loads = <<>>
    /\ channels = {}
    /\ mounted = TRUE
    /\ nauth = 0
    /\ observed = NoObservation

CallMarkLocalChange ==
    /\ \E table \in TrackerTables, id \in TrackerIds :
          /\ lastLocalChangeRef' = markLocalChange(table, id, now)
          /\ ttrail' = TNote(TEntry("mark", table, id, FALSE))
    /\ UNCHANGED <<orchVars, now, histVars, wsVars, dbVars>>

CallIsLocalChange ==
    /\ \E table \in TrackerTables, id \in TrackerIds :
          /\ lastLocalChangeRef' = consumeMarker(lastLocalChangeRef, table, id, now)
          /\ ttrail' = TNote(TEntry("check", table, id,
                             isLocalChange(lastLocalChangeRef, table, id, now)))
    /\ UNCHANGED <<orchVars, now, histVars, wsVars, dbVars>>

TrackerTick ==
    /\ Tick
    /\ UNCHANGED <<orchVars, lastLocalChangeRef, ttrail, histVars, wsVars, dbVars>>

TrackerNext ==
    \/ CallMarkLocalChange
    \/ CallIsLocalChange
    \/ TrackerTick

SpecTracker == InitTracker /\ [][TrackerNext]_vars

\* The workspace with its persistence service and change feed, from a
\* loaded workspace of one page with two blocks: mutator calls, the service
\* executing or failing their writes, the calls resuming, events being
\* delivered, other devices writing, and time passing, in any order.
InitSync ==
    /\ user = "u1"
    /\ pages = <<Page("p1", "Untitled", "doc",
                      <<Block("b1", "text", "", Undefined),
                        Block("b2", "checklist", "", "false")>>)>>
    /\ activePageId = "p1"
    /\ calls = <<>>
    /\ ncalls = 0
    /\ toasts = <<>>
    /\ dbPages = ("p1" :> PageRow("u1", "Untitled", "doc", 0))
    /\ dbBlocks = ("b1" :> BlockRow("u1", "p1", "text", "", Undefined, 0))
               @@ ("b2" :> BlockRow("u1", "p1", "checklist", "", "false", 1))
    /\ nids = [pages |-> 0, blocks |-> 0]
    /\ feed = <<>>
    /\ nexternal = 0
    /\ lastEvent = NoEvent
    /\ isInitialLoadRef = FALSE
    /\ timer = NoTimer
    /\ loads = <<>>
    /\ channels = {"u1"}
    /\ mounted = TRUE
    /\ nauth = 0
    /\ observed = NoObservation
    /\ lastLocalChangeRef = NoMarker
    /\ now = 0
    /\ ttrail = <<>>
    /\ maxHistory = 1
    /\ history = <<"s1">>
    /\ currentIndex = 0
    /\ isUndoRedoRef = FALSE
    /\ trail = <<>>

ClientFrame == UNCHANGED <<orchVars, now, ttrail, histVars, dbVars>>

CallCreatePage ==
    /\ ncalls < MaxCalls
    /\ createPage
    /\ ClientFrame

CallDeletePage ==
    /\ ncalls < MaxCalls
    /\ \E pageId \in Ids(pages) : deletePage(pageId)
    /\ ClientFrame

CallUpdatePageTitle ==
    /\ ncalls < MaxCalls
    /\ \E pageId \in Ids(pages), title \in Titles : updatePageTitle(pageId, title)
    /\ ClientFrame

CallUpdatePageIcon ==
    /\ ncalls < MaxCalls
    /\ \E pageId \in Ids(pages), icon \in Icons : updatePageIcon(pageId, icon)
    /\ ClientFrame

CallAddBlock ==
    /\ ncalls < MaxCalls
    /\ \E pageId \in Ids(pages), type \in BlockTypes :
          \E after \in {NoId} \cup Ids(PageOf(pages, pageId).blocks) :
              addBlock(pageId, type, after)
    /\ ClientFrame

CallUpdateBlock ==
    /\ ncalls < MaxCalls
    /\ \E pageId \in Ids(pages), updates \in BlockUpdates :
          \E blockId \in Ids(PageOf(pages, pageId).blocks) :
              updateBlock(pageId, blockId, updates)
    /\ ClientFrame

CallDeleteBlock ==
    /\ ncalls < MaxCalls
    /\ \E pageId \in Ids(pages) :
          \E blockId \in Ids(PageOf(pages, pageId).blocks) :
              deleteBlock(pageId, blockId)
    /\ ClientFrame

\* handleDragEnd of PageEditor: one block of the page dragged onto another
CallReorderBlocks ==
    /\ ncalls < MaxCalls
    /\ \E pageId \in Ids(pages) :
          LET blocks == PageOf(pages, pageId).blocks
          IN  \E oldIndex, newIndex \in 0..(Len(blocks) - 1) :
                  /\ oldIndex # newIndex
                  /\ reorderBlocks(pageId, arrayMove(blocks, oldIndex, newIndex))
    /\ ClientFrame

ServiceExecutes ==
    /\ \E cid \in DOMAIN calls :
          /\ calls[cid].stage \in {"sent", "sent2"}
          /\ Execute(cid)
    /\ UNCHANGED <<orchVars, user, pages, activePageId, ncalls, toasts, nexternal, lastEvent,
                   trackerVars, histVars>>

ServiceFails ==
    /\ \E cid \in DOMAIN calls :
          /\ calls[cid].stage \in {"sent", "sent2"}
          /\ Fails(cid)
    /\ UNCHANGED <<orchVars, user, pages, activePageId, ncalls, toasts, nexternal, lastEvent,
                   trackerVars, histVars>>

CallResumes ==
    /\ \E cid \in DOMAIN calls : Resume(cid)
    /\ ClientFrame

EventDelivered ==
    /\ OnEvent
    /\ UNCHANGED <<orchVars, user, activePageId, calls, ncalls, toasts, dbPages, dbBlocks, nids,
                   nexternal, now, ttrail, histVars>>

\* Another device of the same user edits, adds or deletes a block, renames
\* or creates a page.
OtherDeviceUpdates ==
    /\ nexternal < MaxExternal
    /\ \E b \in DOMAIN dbBlocks :
          LET db == [dbBlocks EXCEPT ![b].content = "B"]
          IN  /\ dbBlocks' = db
              /\ feed' = Append(feed, BlockEvent("UPDATE", b, 0, now, db))
    /\ nexternal' = nexternal + 1
    /\ UNCHANGED <<orchVars, dbPages, nids, lastEvent, wsVars, trackerVars, histVars>>

OtherDeviceRenames ==
    /\ nexternal < MaxExternal
    /\ \E p \in DOMAIN dbPages :
          LET db == [dbPages EXCEPT ![p].title = "T2"]
          IN  /\ dbPages' = db
              /\ feed' = Append(feed, PageEvent("UPDATE", p, 0, now, db))
    /\ nexternal' = nexternal + 1
    /\ UNCHANGED <<orchVars, dbBlocks, nids, lastEvent, wsVars, trackerVars, histVars>>

OtherDeviceCreates ==
    /\ nexternal < MaxExternal
    /\ LET id == NewPageId(nids.pages + 1)
           db == (id :> PageRow(user, "Untitled", "doc", Cardinality(DOMAIN dbPages)))
                     @@ dbPages
       IN  /\ dbPages' = db
           /\ feed' = Append(feed, PageEvent("INSERT", id, 0, now, db))
    /\ nids' = [nids EXCEPT !.pages = @ + 1]
    /\ nexternal' = nexternal + 1
    /\ UNCHANGED <<orchVars, dbBlocks, lastEvent, wsVars, trackerVars, histVars>>

OtherDeviceInserts ==
    /\ nexternal < MaxExternal
    /\ \E p \in DOMAIN dbPages :
          LET id == NewBlockId(nids.blocks + 1)
              n == Cardinality({b \in DOMAIN dbBlocks : dbBlocks[b].page_id = p})
              db == (id :> BlockRow(user, p, "text", "", Undefined, n)) @@ dbBlocks
          IN  /\ dbBlocks' = db
              /\ feed' = Append(feed, BlockEvent("INSERT", id, 0, now, db))
    /\ nids' = [nids EXCEPT !.blocks = @ + 1]
    /\ nexternal' = nexternal + 1
    /\ UNCHANGED <<orchVars, dbPages, lastEvent, wsVars, trackerVars, histVars>>

OtherDeviceDeletes ==
    /\ nexternal < MaxExternal
    /\ \E b \in DOMAIN dbBlocks :
          /\ dbBlocks' = Without(dbBlocks, {b})
          /\ feed' = Append(feed, BlockEvent("DELETE", b, 0, now, dbBlocks))
    /\ nexternal' = nexternal + 1
    /\ UNCHANGED <<orchVars, dbPages, nids, lastEvent, wsVars, trackerVars, histVars>>

TimePasses ==
    /\ Tick
    /\ UNCHANGED <<orchVars, lastLocalChangeRef, ttrail, histVars, wsVars, dbVars>>

SyncNext ==
    \/ CallCreatePage
    \/ CallDeletePage
    \/ CallUpdatePageTitle
    \/ CallUpdatePageIcon
    \/ CallAddBlock
    \/ CallUpdateBlock
    \/ CallDeleteBlock
    \/ CallReorderBlocks
    \/ ServiceExecutes
    \/ ServiceFails
    \/ CallResumes
    \/ EventDelivered
    \/ OtherDeviceUpdates
    \/ OtherDeviceInserts
    \/ OtherDeviceCreates
    \/ OtherDeviceDeletes
    \/ TimePasses

SpecSync == InitSync /\ [][SyncNext]_vars

\* The same operations when no remote write fails: what the mutators, the
\* service, the feed and a second device of the same user can do.
ReloadNext ==
    \/ CallCreatePage
    \/ CallDeletePage
    \/ CallUpdatePageTitle
    \/ CallUpdatePageIcon
    \/ CallAddBlock
    \/ CallUpdateBlock
    \/ CallDeleteBlock
    \/ CallReorderBlocks
    \/ ServiceExecutes
    \/ CallResumes
    \/ EventDelivered
    \/ OtherDeviceUpdates
    \/ OtherDeviceInserts
    \/ OtherDeviceCreates
    \/ OtherDeviceDeletes
    \/ TimePasses

SpecReload == InitSync /\ [][ReloadNext]_vars

\* The race between a local block edit and an edit from another device:
\* the workspace where only updateBlock is called.
CallUpdateContent ==
    /\ ncalls < MaxCalls
    /\ \E pageId \in Ids(pages) :
          \E blockId \in Ids(PageOf(pages, pageId).blocks) :
              updateBlock(pageId, blockId, [content |-> "A"])
    /\ ClientFrame

RaceNext ==
    \/ CallUpdateContent
    \/ ServiceExecutes
    \/ ServiceFails
    \/ CallResumes
    \/ EventDelivered
    \/ OtherDeviceUpdates
    \/ TimePasses

SpecRace == InitSync /\ [][RaceNext]_vars

\* Edits of a page title and of a block content by this client and by
\* another device of the same user, up to the arrival of their events.
MergeNext ==
    \/ CallUpdateContent
    \/ CallUpdatePageTitle
    \/ ServiceExecutes
    \/ EventDelivered
    \/ OtherDeviceUpdates
    \/ OtherDeviceRenames
    \/ TimePasses

SpecMerge == InitSync /\ [][MergeNext]_vars

\* The mutators that change the local pages before their write, with the
\* service, the feed and the edits of another device.
EditNext ==
    \/ CallUpdatePageTitle
    \/ CallUpdatePageIcon
    \/ CallUpdateBlock
    \/ CallDeleteBlock
    \/ CallReorderBlocks
    \/ ServiceExecutes
    \/ ServiceFails
    \/ CallResumes
    \/ EventDelivered
    \/ OtherDeviceUpdates

SpecEdit == InitSync /\ [][EditNext]_vars

\* The mutators called with a target that may or may not be in the local
\* pages: "p0" and "b0" are ids of no page and no block of the workspace.
AnyPageIds == {"p1", "p0"}

AnyBlockIds == {"b1", "b0"}

CallOnAnyTarget ==
    /\ ncalls < MaxCalls
    /\ \E pageId \in AnyPageIds, blockId \in AnyBlockIds :
          \/ deletePage(pageId)
          \/ \E title \in Titles : updatePageTitle(pageId, title)
          \/ \E icon \in Icons : updatePageIcon(pageId, icon)
          \/ \E type \in BlockTypes : addBlock(pageId, type, blockId)
          \/ \E updates \in BlockUpdates : updateBlock(pageId, blockId, updates)
          \/ deleteBlock(pageId, blockId)
          \/ reorderBlocks(pageId, BlocksOf(pages, pageId))
    /\ ClientFrame

AnyTargetNext ==
    \/ CallOnAnyTarget
    \/ ServiceExecutes
    \/ ServiceFails
    \/ CallResumes
    \/ EventDelivered

SpecAnyTarget == InitSync /\ [][AnyTargetNext]_vars

\* Drag and drop on a page of three blocks, with the service, the feed and
\* another device deleting blocks.
InitReorder ==
    /\ user = "u1"
    /\ pages = <<Page("p1", "Untitled", "doc",
                      <<Block("b1", "text", "", Undefined),
                        Block("b2", "checklist", "", "false"),
                        Block("b3", "text", "A", Undefined)>>)>>
    /\ activePageId = "p1"
    /\ calls = <<>>
    /\ ncalls = 0
    /\ toasts = <<>>
    /\ dbPages = ("p1" :> PageRow("u1", "Untitled", "doc", 0))
    /\ dbBlocks = ("b1" :> BlockRow("u1", "p1", "text", "", Undefined, 0))
               @@ ("b2" :> BlockRow("u1", "p1", "checklist", "", "false", 1))
               @@ ("b3" :> BlockRow("u1", "p1", "text", "A", Undefined, 2))
    /\ nids = [pages |-> 0, blocks |-> 1]
    /\ feed = <<>>
    /\ nexternal = 0
    /\ lastEvent = NoEvent
    /\ isInitialLoadRef = FALSE
    /\ timer = NoTimer
    /\ loads = <<>>
    /\ channels = {"u1"}
    /\ mounted = TRUE
    /\ nauth = 0
    /\ observed = NoObservation
    /\ lastLocalChangeRef = NoMarker
    /\ now = 0
    /\ ttrail = <<>>
    /\ maxHistory = 1
    /\ history = <<"s1">>
    /\ currentIndex = 0
    /\ isUndoRedoRef = FALSE
    /\ trail = <<>>

ReorderNext ==
    \/ CallReorderBlocks
    \/ ServiceExecutes
    \/ ServiceFails
    \/ CallResumes
    \/ EventDelivered
    \/ OtherDeviceDeletes

SpecReorder == InitReorder /\ [][ReorderNext]_vars

\* activePage = pages.find(p => p.id === activePageId) || pages[0] || null,
\* as a sequence of at most one Page: <<>> is null.
activePage ==
    IF FindIndex(pages, activePageId) >= 0
    THEN <<pages[FindIndex(pages, activePageId) + 1]>>
    ELSE IF Len(pages) > 0 THEN <<pages[1]>> ELSE <<>>

\* Deleting pages of a workspace of three pages while the user selects
\* pages in the sidebar.
InitPages ==
    /\ user = "u1"
    /\ pages = <<Page("p1", "Untitled", "doc",
                      <<Block("b1", "text", "", Undefined)>>),
                 Page("p2", "Untitled", "doc",
                      <<Block("b2", "text", "", Undefined)>>),
                 Page("p3", "Untitled", "doc",
                      <<Block("b3", "text", "", Undefined)>>)>>
    /\ activePageId = "p1"
    /\ calls = <<>>
    /\ ncalls = 0
    /\ toasts = <<>>
    /\ dbPages = ("p1" :> PageRow("u1", "Untitled", "doc", 0))
              @@ ("p2" :> PageRow("u1", "Untitled", "doc", 1))
              @@ ("p3" :> PageRow("u1", "Untitled", "doc", 2))
    /\ dbBlocks = ("b1" :> BlockRow("u1", "p1", "text", "", Undefined, 0))
               @@ ("b2" :> BlockRow("u1", "p2", "text", "", Undefined, 0))
               @@ ("b3" :> BlockRow("u1", "p3", "text", "", Undefined, 0))
    /\ nids = [pages |-> 2, blocks |-> 1]
    /\ feed = <<>>
    /\ nexternal = 0
    /\ lastEvent = NoEvent
    /\ isInitialLoadRef = FALSE
    /\ timer = NoTimer
    /\ loads = <<>>
    /\ channels = {"u1"}
    /\ mounted = TRUE
    /\ nauth = 0
    /\ observed = NoObservation
    /\ lastLocalChangeRef = NoMarker
    /\ now = 0
    /\ ttrail = <<>>
    /\ maxHistory = 1
    /\ history = <<"s1">>
    /\ currentIndex = 0
    /\ isUndoRedoRef = FALSE
    /\ trail = <<>>

\* setActivePageId(id), as the sidebar calls it for a page it shows
SelectPage ==
    /\ \E id \in Ids(pages) : activePageId' = id
    /\ UNCHANGED <<orchVars, user, pages, calls, ncalls, toasts, trackerVars, histVars,
                   dbVars>>

PagesNext ==
    \/ CallDeletePage
    \/ SelectPage
    \/ ServiceExecutes
    \/ ServiceFails
    \/ CallResumes
    \/ EventDelivered

SpecPages == InitPages /\ [][PagesNext]_vars

\* The orchestrator after a load: the user edits the title and the icon of a
\* page, the debounce timer fires, the user undoes and redoes.  The remote
\* writes of the edits stay in flight.  Whether the load left a timer
\* pending depends on whether its setPages was rendered before or after
\* isInitialLoadRef was cleared, which the React version decides.
InitOrch ==
    /\ user = "u1"
    /\ pages = <<Page("p1", "Untitled", "doc",
                      <<Block("b1", "text", "", Undefined),
                        Block("b2", "checklist", "", "false")>>)>>
    /\ activePageId = "p1"
    /\ calls = <<>>
    /\ ncalls = 0
    /\ toasts = <<>>
    /\ dbPages = ("p1" :> PageRow("u1", "Untitled", "doc", 0))
    /\ dbBlocks = ("b1" :> BlockRow("u1", "p1", "text", "", Undefined, 0))
               @@ ("b2" :> BlockRow("u1", "p1", "checklist", "", "false", 1))
    /\ nids = [pages |-> 0, blocks |-> 0]
    /\ feed = <<>>
    /\ nexternal = 0
    /\ lastEvent = NoEvent
    /\ isInitialLoadRef = FALSE
    /\ timer \in {NoTimer, DebounceEffect(pages, FALSE)}
    /\ loads = <<>>
    /\ channels = {"u1"}
    /\ mounted = TRUE
    /\ nauth = 0
    /\ observed = NoObservation
    /\ lastLocalChangeRef = NoMarker
    /\ now = 0
    /\ ttrail = <<>>
    /\ maxHistory = DefaultMaxHistory
    /\ history = <<pages>>
    /\ currentIndex = 0
    /\ isUndoRedoRef = FALSE
    /\ trail = <<>>

OrchFrame ==
    UNCHANGED <<now, ttrail, history, currentIndex, isUndoRedoRef, maxHistory,
                trail, isInitialLoadRef, loads, channels, mounted, nauth, dbVars>>

CallEditTitle ==
    /\ ncalls < MaxEdits
    /\ \E pageId \in Ids(pages), title \in Titles : updatePageTitle(pageId, title)
    /\ timer' = DebounceEffect(pages', isInitialLoadRef)
    /\ observed' = [op |-> "edit", before |-> pages, fires |-> 0, dirty |-> TRUE,
                    recorded |-> At(history, currentIndex) = pages]
    /\ OrchFrame

CallEditIcon ==
    /\ ncalls < MaxEdits
    /\ \E pageId \in Ids(pages), icon \in Icons : updatePageIcon(pageId, icon)
    /\ timer' = DebounceEffect(pages', isInitialLoadRef)
    /\ observed' = [op |-> "edit", before |-> pages, fires |-> 0, dirty |-> TRUE,
                    recorded |-> At(history, currentIndex) = pages]
    /\ OrchFrame

DebounceFires ==
    /\ isUndoRedoRef \/ Len(history) < MaxRecorded
    /\ OnTimer
    /\ UNCHANGED <<trackerVars, wsVars, isInitialLoadRef, loads, channels, mounted,
                   nauth, dbVars>>

CallWorkspaceUndo ==
    /\ Len(toasts) < MaxToasts
    /\ WorkspaceUndo
    /\ UNCHANGED <<trackerVars, user, calls, ncalls, isInitialLoadRef, loads,
                   channels, mounted, nauth, dbVars>>

CallWorkspaceRedo ==
    /\ Len(toasts) < MaxToasts
    /\ WorkspaceRedo
    /\ UNCHANGED <<trackerVars, user, calls, ncalls, isInitialLoadRef, loads,
                   channels, mounted, nauth, dbVars>>

OrchNext ==
    \/ CallEditTitle
    \/ CallEditIcon
    \/ DebounceFires
    \/ CallWorkspaceUndo
    \/ CallWorkspaceRedo

SpecOrch == InitOrch /\ [][OrchNext]_vars

\* The hook from its mount without a user: users sign in, switch and sign
\* out, the loads they start run to their end in any order.  u1 has a page,
\* u2 is new.
Users == {"u1", "u2"}

InitIdentity ==
    /\ user = NoUser
    /\ pages = <<>>
    /\ activePageId = NoId
    /\ calls = <<>>
    /\ ncalls = 0
    /\ toasts = <<>>
    /\ dbPages = ("p1" :> PageRow("u1", "Untitled", "doc", 0))
    /\ dbBlocks = ("b1" :> BlockRow("u1", "p1", "text", "", Undefined, 0))
               @@ ("b2" :> BlockRow("u1", "p1", "checklist", "", "false", 1))
    /\ nids = [pages |-> 0, blocks |-> 0]
    /\ feed = <<>>
    /\ nexternal = 0
    /\ lastEvent = NoEvent
    /\ isInitialLoadRef = TRUE
    /\ timer = NoTimer
    /\ loads = <<>>
    /\ channels = {}
    /\ mounted = TRUE
    /\ nauth = 0
    /\ observed = NoObservation
    /\ lastLocalChangeRef = NoMarker
    /\ now = 0
    /\ ttrail = <<>>
    /\ maxHistory = DefaultMaxHistory
    /\ history = << <<>> >>
    /\ currentIndex = 0
    /\ isUndoRedoRef = FALSE
    /\ trail = <<>>

UserChanges ==
    /\ mounted
    /\ nauth < MaxChanges
    /\ nauth' = nauth + 1
    /\ \E userId \in (Users \cup {NoUser}) \ {user} :
          /\ userId # NoUser => Len(loads) < MaxLoads
          /\ OnUserChange(userId)
    /\ UNCHANGED <<histVars, trackerVars, dbVars, observed>>

PagesQueryReturns ==
    /\ mounted
    /\ \E k \in DOMAIN loads : OnPagesData(k)
    /\ UNCHANGED <<nauth, histVars, trackerVars, wsVars, dbVars, isInitialLoadRef, timer,
                   channels, mounted, observed>>

BlocksQueryReturns ==
    /\ mounted
    /\ \E k \in DOMAIN loads : OnBlocksData(k)
    /\ UNCHANGED <<nauth, trackerVars, dbVars, user, calls, ncalls, toasts, channels,
                   mounted, observed>>

DefaultPageInserted ==
    /\ mounted
    /\ \E k \in DOMAIN loads : OnDefaultPage(k)
    /\ UNCHANGED <<nauth, histVars, trackerVars, wsVars, dbBlocks, nexternal, lastEvent,
                   isInitialLoadRef, timer, channels, mounted, observed>>

DefaultBlocksInserted ==
    /\ mounted
    /\ \E k \in DOMAIN loads : OnDefaultBlocks(k)
    /\ UNCHANGED <<nauth, trackerVars, dbPages, nexternal, lastEvent, user, calls,
                   ncalls, toasts, channels, mounted, observed>>

LoadFails ==
    /\ mounted
    /\ Len(toasts) < MaxFailures
    /\ \E k \in DOMAIN loads : OnLoadError(k)
    /\ UNCHANGED <<nauth, histVars, trackerVars, dbVars, user, pages, activePageId,
                   calls, ncalls, timer, channels, mounted, observed>>

Unmounts ==
    /\ mounted
    /\ OnUnmount
    /\ UNCHANGED <<nauth, histVars, trackerVars, wsVars, dbVars, isInitialLoadRef, loads,
                   observed>>

\* The service has an event of a user this client has no channel for: it is
\* not sent to this client.
FeedSkips ==
    /\ feed # <<>>
    /\ Head(feed).user_id \notin channels
    /\ feed' = Tail(feed)
    /\ UNCHANGED <<histVars, trackerVars, wsVars, orchVars, dbPages, dbBlocks,
                   nids, nexternal, lastEvent>>

IdentityNext ==
    \/ UserChanges
    \/ PagesQueryReturns
    \/ BlocksQueryReturns
    \/ DefaultPageInserted
    \/ DefaultBlocksInserted
    \/ LoadFails

SpecIdentity == InitIdentity /\ [][IdentityNext]_vars

\* The feed subscription over sign-in, switch, sign-out and unmount, with
\* another device renaming pages.  Both users have a page.
InitFeed ==
    /\ user = NoUser
    /\ pages = <<>>
    /\ activePageId = NoId
    /\ calls = <<>>
    /\ ncalls = 0
    /\ toasts = <<>>
    /\ dbPages = ("p1" :> PageRow("u1", "Untitled", "doc", 0))
              @@ ("p2" :> PageRow("u2", "Untitled", "doc", 0))
    /\ dbBlocks = ("b1" :> BlockRow("u1", "p1", "text", "", Undefined, 0))
               @@ ("b2" :> BlockRow("u2", "p2", "text", "", Undefined, 0))
    /\ nids = [pages |-> 1, blocks |-> 0]
    /\ feed = <<>>
    /\ nexternal = 0
    /\ lastEvent = NoEvent
    /\ isInitialLoadRef = TRUE
    /\ timer = NoTimer
    /\ loads = <<>>
    /\ channels = {}
    /\ mounted = TRUE
    /\ nauth = 0
    /\ observed = NoObservation
    /\ lastLocalChangeRef = NoMarker
    /\ now = 0
    /\ ttrail = <<>>
    /\ maxHistory = DefaultMaxHistory
    /\ history = << <<>> >>
    /\ currentIndex = 0
    /\ isUndoRedoRef = FALSE
    /\ trail = <<>>

FeedNext ==
    \/ UserChanges
    \/ PagesQueryReturns
    \/ BlocksQueryReturns
    \/ Unmounts
    \/ OtherDeviceRenames
    \/ EventDelivered
    \/ FeedSkips

SpecFeed == InitFeed /\ [][FeedNext]_vars

-----------------------------------------------------------------------------
(* Properties of the history engine, stated over the observer *)

PushCalls == {"push", "skip"}

\* The latest n calls, oldest first (n <= Len(trail)).
Recent(n) == SubSeq(trail, Len(trail) - n + 1, Len(trail))

\* The cursor is on the last entry: what every claim below means by it.
CursorOnLast == currentIndex = Len(history) - 1

\* C1 as stated: after undo(); undo(); pushState(x), made on a history of at
\* least three entries with the cursor on the last one, x is the last entry,
\* the cursor is on it and canRedo is false.
C1_BranchDiscardOriginal ==
    (/\ Len(trail) >= 3
     /\ Recent(3)[1].op = "undo"
     /\ Recent(3)[2].op = "undo"
     /\ Recent(3)[3].op \in PushCalls
     /\ Len(Recent(3)[1].h) >= 3
     /\ Recent(3)[1].i = Len(Recent(3)[1].h) - 1)
    => (/\ Last(history) = Recent(3)[3].arg
        /\ CursorOnLast
        /\ ~canRedo)

\* C1 amended: after undo(); undo(); pushState(y); pushState(x) on such a
\* history, the first pushState is the one the suppression flag consumes and
\* the second discards the two redoable states: the history is the entries
\* up to the cursor followed by x, the cursor is on x and canRedo is false.
C1_BranchDiscard ==
    (/\ Len(trail) >= 4
     /\ Recent(4)[1].op = "undo"
     /\ Recent(4)[2].op = "undo"
     /\ Recent(4)[3].op \in PushCalls
     /\ Recent(4)[4].op \in PushCalls
     /\ Len(Recent(4)[1].h) >= 3
     /\ Recent(4)[1].i = Len(Recent(4)[1].h) - 1)
    => (/\ Recent(4)[3].op = "skip"
        /\ Recent(4)[4].op = "push"
        /\ history = Append(SubSeq(Recent(4)[1].h, 1, Len(Recent(4)[1].h) - 2),
                            Recent(4)[4].arg)
        /\ Last(history) = Recent(4)[4].arg
        /\ CursorOnLast
        /\ ~canRedo)

C1_Witness ==
    /\ Len(trail) >= 4
    /\ Recent(4)[1].op = "undo"
    /\ Recent(4)[2].op = "undo"
    /\ Recent(4)[3].op = "skip"
    /\ Recent(4)[4].op = "push"
    /\ Len(Recent(4)[1].h) >= 3
    /\ Recent(4)[1].i = Len(Recent(4)[1].h) - 1
    /\ Recent(4)[1].h[3] # Recent(4)[4].arg

\* C2: with the cursor past the first entry, undo() returns the snapshot
\* stored immediately before the cursor, and a redo() issued directly after
\* it returns the snapshot the cursor was on, puts the cursor back and leaves
\* the stored snapshots as they were.
C2_RoundTrip ==
    /\ (/\ Len(trail) >= 1
        /\ Recent(1)[1].op \in {"undo", "undoNull"}
        /\ Recent(1)[1].i > 0)
       => (/\ Recent(1)[1].op = "undo"
           /\ Recent(1)[1].ret = At(Recent(1)[1].h, Recent(1)[1].i - 1)
           /\ currentIndex = Recent(1)[1].i - 1
           /\ history = Recent(1)[1].h)
    /\ (/\ Len(trail) >= 2
        /\ Recent(2)[1].op \in {"undo", "undoNull"}
        /\ Recent(2)[1].i > 0
        /\ Recent(2)[2].op \in {"redo", "redoNull"})
       => (/\ Recent(2)[2].op = "redo"
           /\ Recent(2)[2].ret = At(Recent(2)[1].h, Recent(2)[1].i)
           /\ currentIndex = Recent(2)[1].i
           /\ history = Recent(2)[1].h)

C2_Witness ==
    /\ Len(trail) >= 2
    /\ Recent(2)[1].op = "undo"
    /\ Recent(2)[2].op = "redo"
    /\ Recent(2)[1].i = 2
    /\ At(history, 1) # At(history, 2)

\* Whether a successful undo/redo has happened since the latest pushState
\* call before call k of the trail: "yes", "no", or "unknown" when the trail
\* does not reach back far enough.
RECURSIVE Replayed(_)
Replayed(k) ==
    IF k = 0
    THEN IF Len(trail) < 4 THEN "no" ELSE "unknown"
    ELSE IF trail[k].op \in {"undo", "redo"} THEN "yes"
    ELSE IF trail[k].op \in PushCalls THEN "no"
    ELSE Replayed(k - 1)

\* C3: a pushState call is suppressed exactly when a successful undo/redo
\* has happened since the previous pushState call; a suppressed call clears
\* the flag and changes neither history nor cursor; the call after a
\* suppressed one is recorded.
C3_Suppression ==
    (/\ Len(trail) >= 1
     /\ Recent(1)[1].op \in PushCalls
     /\ Replayed(Len(trail) - 1) # "unknown")
    => (/\ (Recent(1)[1].op = "skip") <=> (Replayed(Len(trail) - 1) = "yes")
        /\ Recent(1)[1].op = "skip"
              => (/\ history = Recent(1)[1].h
                  /\ currentIndex = Recent(1)[1].i
                  /\ ~isUndoRedoRef)
        /\ Recent(1)[1].op = "push"
              => (/\ Last(history) = Recent(1)[1].arg
                  /\ CursorOnLast))

C3_Witness ==
    /\ Len(trail) >= 4
    /\ Recent(4)[1].op = "undo"
    /\ Recent(4)[2].op = "redo"
    /\ Recent(4)[3].op = "skip"
    /\ Recent(4)[4].op = "push"

\* C4: the history never holds more than maxHistory snapshots; a pushState
\* made on a full history with the cursor on the last entry drops exactly
\* the oldest snapshot and appends the new one; any other recorded pushState
\* keeps the oldest snapshot.
C4_Capacity ==
    /\ Len(history) <= maxHistory
    /\ (/\ Len(trail) >= 1
        /\ Recent(1)[1].op = "push")
       => IF Recent(1)[1].i + 1 = maxHistory
          THEN history = Append(Tail(Recent(1)[1].h), Recent(1)[1].arg)
          ELSE history[1] = Recent(1)[1].h[1]

C4_Witness ==
    /\ Len(trail) >= 1
    /\ Recent(1)[1].op = "push"
    /\ Recent(1)[1].i + 1 = maxHistory
    /\ maxHistory = MaxCapacity
    /\ Recent(1)[1].h[1] # Recent(1)[1].h[2]

\* C5: the cursor stays within the history, so canUndo and canRedo say
\* exactly whether an earlier and a later snapshot exist; undo at the first
\* entry and redo at the last one return null and change nothing.
C5_CursorBounds ==
    /\ 0 <= currentIndex
    /\ currentIndex <= Len(history) - 1
    /\ canUndo <=> (currentIndex - 1 \in 0..(Len(history) - 1))
    /\ canRedo <=> (currentIndex + 1 \in 0..(Len(history) - 1))
    /\ (/\ Len(trail) >= 1
        /\ Recent(1)[1].op \in {"undo", "undoNull"}
        /\ Recent(1)[1].i = 0)
       => (/\ Recent(1)[1].op = "undoNull"
           /\ Recent(1)[1].ret = Null
           /\ history = Recent(1)[1].h
           /\ currentIndex = Recent(1)[1].i
           /\ isUndoRedoRef = Recent(1)[1].f)
    /\ (/\ Len(trail) >= 1
        /\ Recent(1)[1].op \in {"redo", "redoNull"}
        /\ Recent(1)[1].i = Len(Recent(1)[1].h) - 1)
       => (/\ Recent(1)[1].op = "redoNull"
           /\ Recent(1)[1].ret = Null
           /\ history = Recent(1)[1].h
           /\ currentIndex = Recent(1)[1].i
           /\ isUndoRedoRef = Recent(1)[1].f)

C5_Witness ==
    /\ Len(trail) >= 3
    /\ Recent(3)[1].op = "push"
    /\ Recent(3)[1].i < Len(Recent(3)[1].h) - 1
    /\ Recent(3)[2].op = "push"
    /\ Recent(3)[2].i + 1 = maxHistory
    /\ Recent(3)[3].op = "redoNull"

\* C6 as stated: right after reset(newState) the history is the single
\* snapshot newState with the cursor on it and nothing to undo or redo, and
\* the next pushState(x) yields the history <<newState, x>> (capacity >= 2),
\* whatever undo/redo was pending.
C6_ResetFresh ==
    /\ (/\ Len(trail) >= 1
        /\ Recent(1)[1].op = "reset")
       => (/\ history = <<Recent(1)[1].arg>>
           /\ currentIndex = 0
           /\ ~canUndo
           /\ ~canRedo)
    /\ (/\ Len(trail) >= 2
        /\ Recent(2)[1].op = "reset"
        /\ Recent(2)[2].op \in PushCalls
        /\ maxHistory >= 2)
       => history = <<Recent(2)[1].arg, Recent(2)[2].arg>>

-----------------------------------------------------------------------------
(* Properties of the local-change tracker, stated over the observer *)

\* What the calls before call k + 1 of the tracker's trail make of an
\* isLocalChange(table, id) at time t, if every entity had a marker of its
\* own: "yes" when the latest markLocalChange(table, id) is younger than the
\* window and no isLocalChange(table, id) has returned true since.
RECURSIVE MarkedPerEntity(_, _, _, _)
MarkedPerEntity(k, table, id, t) ==
    IF k = 0
    THEN IF Len(ttrail) < 3 THEN "no" ELSE "unknown"
    ELSE IF ttrail[k].table = table /\ ttrail[k].id = id /\ ttrail[k].op = "mark"
    THEN IF t - ttrail[k].at < LocalWindow THEN "yes" ELSE "no"
    ELSE IF ttrail[k].table = table /\ ttrail[k].id = id /\ ttrail[k].ret
    THEN "no"
    ELSE MarkedPerEntity(k - 1, table, id, t)

\* The same with the single marker the code keeps: the latest
\* markLocalChange call of any entity, or isLocalChange that returned true,
\* decides.
RECURSIVE MarkedSingleSlot(_, _, _, _)
MarkedSingleSlot(k, table, id, t) ==
    IF k = 0
    THEN IF Len(ttrail) < 3 THEN "no" ELSE "unknown"
    ELSE IF ttrail[k].op = "mark"
    THEN IF /\ ttrail[k].table = table /\ ttrail[k].id = id
            /\ t - ttrail[k].at < LocalWindow
         THEN "yes" ELSE "no"
    ELSE IF ttrail[k].ret
    THEN "no"
    ELSE MarkedSingleSlot(k - 1, table, id, t)

LastCheck == ttrail[Len(ttrail)]

\* C7 as stated: isLocalChange(collection, id) returns true exactly once per
\* markLocalChange(collection, id) when the event arrives within the window,
\* also when other entities were marked in between, and false otherwise.
C7_TrackerOriginal ==
    (/\ Len(ttrail) >= 1
     /\ LastCheck.op = "check"
     /\ MarkedPerEntity(Len(ttrail) - 1, LastCheck.table, LastCheck.id,
                        LastCheck.at) # "unknown")
    => (LastCheck.ret <=>
          MarkedPerEntity(Len(ttrail) - 1, LastCheck.table, LastCheck.id,
                          LastCheck.at) = "yes")

\* C7 amended: isLocalChange(collection, id) returns true exactly when the
\* latest markLocalChange call was for the same collection and id, is
\* younger than the window, and no isLocalChange has returned true since; it
\* then clears the marker; otherwise it returns false and leaves the marker.
C7_Tracker ==
    (/\ Len(ttrail) >= 1
     /\ LastCheck.op = "check"
     /\ MarkedSingleSlot(Len(ttrail) - 1, LastCheck.table, LastCheck.id,
                         LastCheck.at) # "unknown")
    => (/\ LastCheck.ret <=>
              MarkedSingleSlot(Len(ttrail) - 1, LastCheck.table, LastCheck.id,
                               LastCheck.at) = "yes"
        /\ LastCheck.ret => lastLocalChangeRef = NoMarker
        /\ ~LastCheck.ret => lastLocalChangeRef = LastCheck.m)

\* markLocalChange(A); markLocalChange(B); an event for A within the window
C7_Witness ==
    /\ Len(ttrail) = 3
    /\ ttrail[1].op = "mark" /\ ttrail[2].op = "mark" /\ ttrail[3].op = "check"
    /\ ttrail[1].table = ttrail[3].table /\ ttrail[1].id = ttrail[3].id
    /\ ttrail[2].table = ttrail[1].table /\ ttrail[2].id # ttrail[1].id
    /\ ttrail[3].at - ttrail[1].at = 100
    /\ ~ttrail[3].ret

-----------------------------------------------------------------------------
(* Properties of the workspace with its change feed *)

\* C8: every feed event that reports a write this client issued through a
\* mutator and that is delivered within 2000 ms of that write is dropped by
\* the feed adapter, without reaching onPageChange or onBlockChange.
C8_EchoSuppression ==
    (/\ lastEvent.origin # 0
     /\ lastEvent.at - lastEvent.sent < LocalWindow)
    => ~lastEvent.passed

\* The contents the local state shows for block id.
ContentOf(ps, id) ==
    {ps[i].blocks[j].content :
        <<i, j>> \in {x \in (DOMAIN ps) \X (1..4) :
                         /\ x[2] <= Len(ps[x[1]].blocks)
                         /\ ps[x[1]].blocks[x[2]].id = id}}

\* The event about to be delivered, if any.
Arriving == IF feed = <<>> THEN {} ELSE {Head(feed)}

\* The step that delivers event e, an edit of a block's content by another
\* device, 100 ms after this client called updateBlock with a new content
\* for that block.
RaceStep(e) ==
    /\ feed # <<>>
    /\ e = Head(feed)
    /\ feed' = Tail(feed)
    /\ e.table = "blocks" /\ e.type = "UPDATE" /\ e.origin = 0
    /\ \E cid \in DOMAIN calls :
          /\ calls[cid].kind = "updateBlock"
          /\ calls[cid].blockId = e.id
          /\ "content" \in DOMAIN calls[cid].arg
          /\ now - calls[cid].at = 100

\* C9 as stated: in that step the remote value wins, whether or not the echo
\* of the local write has been delivered before: the event is passed to the
\* reconciler and the local content of the block is the remote one afterwards.
C9_RaceOriginal ==
    [][\A e \in Arriving :
          RaceStep(e) =>
              /\ lastEvent'.passed
              /\ ContentOf(pages', e.id) = {e.row.content}]_vars

\* C9 amended: in that step the remote value wins exactly when the marker
\* updateBlock left is no longer in place (an earlier event for the block has
\* consumed it, or a later call has replaced it by a marker for another
\* entity): the event is then passed to the reconciler and the local content
\* of the block is the remote one afterwards. While a marker for the block
\* younger than 2000 ms is in place (the echo has not been delivered yet, or
\* the write failed), the external event is dropped, consumes the marker and
\* the local state stays as it was.
C9_Race ==
    [][\A e \in Arriving :
          RaceStep(e) =>
              IF /\ lastLocalChangeRef.table = "blocks"
                 /\ lastLocalChangeRef.id = e.id
                 /\ now - lastLocalChangeRef.timestamp < LocalWindow
              THEN /\ ~lastEvent'.passed
                   /\ pages' = pages
                   /\ lastLocalChangeRef' = NoMarker
              ELSE /\ lastEvent'.passed
                   /\ ContentOf(pages', e.id) = {e.row.content}]_vars

\* updateBlock(b, {content: A}) at 0 ms; at 100 ms the edit of b by another
\* device was delivered before the echo and dropped: b still shows A while
\* the call is in flight.
C9_Witness ==
    /\ lastEvent.table = "blocks" /\ lastEvent.type = "UPDATE"
    /\ lastEvent.origin = 0
    /\ lastEvent.at = 100
    /\ ~lastEvent.passed
    /\ \E cid \in DOMAIN calls :
          /\ calls[cid].kind = "updateBlock"
          /\ calls[cid].blockId = lastEvent.id
          /\ calls[cid].arg = [content |-> "A"]
          /\ calls[cid].at = 0
    /\ ContentOf(pages, lastEvent.id) = {"A"}
    /\ lastEvent.id \in DOMAIN dbBlocks
    /\ now = 100

\* C10: in every reachable local state the block ids of each page are
\* pairwise distinct.
C10_BlockIdentity ==
    \A i \in DOMAIN pages :
        \A j, k \in DOMAIN pages[i].blocks :
            pages[i].blocks[j].id = pages[i].blocks[k].id => j = k

-----------------------------------------------------------------------------
(* Properties of the mutators *)

\* The call a step issues, if it issues one.
Issued == IF ncalls' = ncalls + 1 THEN {calls'[ncalls']} ELSE {}

\* The local pages `after` show the change call c asks for, made on `before`.
\* createPage has nothing to show before the service has assigned the id of
\* the new page.
Applied(c, before, after) ==
    CASE c.kind = "createPage" -> TRUE
      [] c.kind = "deletePage" -> c.pageId \notin Ids(after)
      [] c.kind = "updatePageTitle" ->
            \A i \in DOMAIN after :
                after[i].id = c.pageId => after[i].title = c.arg.title
      [] c.kind = "updatePageIcon" ->
            \A i \in DOMAIN after :
                after[i].id = c.pageId => after[i].icon = c.arg.icon
      [] c.kind = "addBlock" ->
            Len(BlocksOf(after, c.pageId)) = Len(BlocksOf(before, c.pageId)) + 1
      [] c.kind = "updateBlock" ->
            \A j \in DOMAIN BlocksOf(after, c.pageId) :
                LET b == BlocksOf(after, c.pageId)[j]
                IN  b.id = c.blockId =>
                        \A f \in DOMAIN c.arg : b[f] = c.arg[f]
      [] c.kind = "deleteBlock" ->
            c.blockId \notin Ids(BlocksOf(after, c.pageId))
      [] c.kind = "reorderBlocks" ->
            c.pageId \in Ids(after) => BlocksOf(after, c.pageId) = c.arg.rows

\* C11: every mutator whose preconditions hold applies its change to the
\* local pages in the step that makes the call, before the remote write
\* completes and whether or not it succeeds.
C11_Optimistic ==
    [][\A c \in Issued : Applied(c, pages, pages')]_vars

\* The step in which the catch block of call cid runs.
HandledFailure(cid) ==
    /\ calls[cid].stage \in {"replied", "replied2"}
    /\ ~calls[cid].ok
    /\ cid \notin DOMAIN calls'

\* The step in which the write of call cid fails.
WriteFails(cid) ==
    /\ calls[cid].stage \in {"sent", "sent2"}
    /\ cid \in DOMAIN calls'
    /\ ~calls'[cid].ok

Optimistic ==
    {"updatePageTitle", "updatePageIcon", "updateBlock", "deleteBlock",
     "reorderBlocks"}

\* C12: when the remote write of updatePageTitle, updatePageIcon,
\* updateBlock, deleteBlock or reorderBlocks fails, neither the failure nor
\* its handling changes the local pages or the selection: they stay as the
\* optimistic change and whatever was applied since have left them.
C12_NoRollback ==
    [][\A cid \in DOMAIN calls :
          (/\ calls[cid].kind \in Optimistic
           /\ HandledFailure(cid) \/ WriteFails(cid))
          => /\ pages' = pages
             /\ activePageId' = activePageId]_vars

\* deleteBlock failed and was handled: the block is still in the table and
\* still gone from the local page.
C12_Witness ==
    /\ calls = <<>>
    /\ toasts = <<"Error deleting block">>
    /\ \E b \in DOMAIN dbBlocks :
          /\ dbBlocks[b].page_id \in Ids(pages)
          /\ b \notin Ids(BlocksOf(pages, dbBlocks[b].page_id))

\* C13: whenever the remote write of a mutator has failed, handling the
\* failure shows the user a toast.
C13_FailureToast ==
    [][\A cid \in DOMAIN calls :
          HandledFailure(cid) => Len(toasts') = Len(toasts) + 1]_vars

\* The target of call c is in the local pages ps.
TargetExists(c, ps) ==
    CASE c.kind = "createPage" -> TRUE
      [] c.kind \in {"updateBlock", "deleteBlock"} ->
            c.blockId \in Ids(BlocksOf(ps, c.pageId))
      [] OTHER -> c.pageId \in Ids(ps)

\* C14: a mutator whose target page or block is not in the local pages
\* issues no remote call and leaves the local pages, the selection and the
\* local-change marker unchanged.
C14_SilentNoOp ==
    [][\A c \in Issued : TargetExists(c, pages)]_vars

\* The step in which call cid, whose write succeeded, runs to its end.
HandledSuccess(cid) ==
    /\ calls[cid].stage \in {"replied", "replied2"}
    /\ calls[cid].ok
    /\ cid \notin DOMAIN calls'

\* C15: a successful addBlock(pageId, type, afterBlockId) places the new
\* block in the local sequence right after the sibling if afterBlockId is
\* given and found in the page, and at the end of the page in every other
\* case (not given, or given but not found when the block is placed).
C15_Placement ==
    [][\A cid \in DOMAIN calls :
          (/\ calls[cid].kind = "addBlock"
           /\ HandledSuccess(cid)
           /\ calls[cid].pageId \in Ids(pages)
           /\ calls[cid].row.id \notin Ids(BlocksOf(pages, calls[cid].pageId)))
          => LET c == calls[cid]
                 blocks == BlocksOf(pages, c.pageId)
                 k == FindIndex(blocks, c.arg.afterBlockId)
             IN  BlocksOf(pages', c.pageId) =
                     IF c.arg.afterBlockId # NoId /\ k >= 0
                     THEN InsertAt(blocks, k + 1, c.row)
                     ELSE Append(blocks, c.row)]_vars

\* The step in which the service applies the write of call cid.
Written(cid) ==
    /\ calls[cid].stage \in {"sent", "sent2"}
    /\ cid \in DOMAIN calls'
    /\ calls'[cid].stage \in {"replied", "replied2"}
    /\ calls'[cid].ok

\* C16: reorderBlocks(pageId, newOrder) replaces the local block sequence of
\* the page by newOrder in the calling step, and its write gives, in one
\* step of the service, every block of newOrder the position of its index in
\* newOrder, leaving the rows of all other blocks as they were.
C16_Reorder ==
    [][/\ \A c \in Issued :
            (c.kind = "reorderBlocks" /\ c.pageId \in Ids(pages))
            => BlocksOf(pages', c.pageId) = c.arg.rows
       /\ \A cid \in DOMAIN calls :
            (calls[cid].kind = "reorderBlocks" /\ Written(cid))
            => LET rows == calls[cid].arg.rows
               IN  /\ \A i \in DOMAIN rows :
                         /\ rows[i].id \in DOMAIN dbBlocks'
                         /\ dbBlocks'[rows[i].id].position = i - 1
                         /\ dbBlocks'[rows[i].id].page_id = calls[cid].pageId
                   /\ \A b \in DOMAIN dbBlocks \ Ids(rows) :
                         b \in DOMAIN dbBlocks' /\ dbBlocks'[b] = dbBlocks[b]
                   /\ DOMAIN dbBlocks' = DOMAIN dbBlocks \cup Ids(rows)]_vars

\* [b1, b2, b3] was reordered to [b3, b1, b2] and the write is done: the
\* table holds b3 at 0, b1 at 1, b2 at 2.
C16_Witness ==
    /\ \E cid \in DOMAIN calls :
          /\ calls[cid].kind = "reorderBlocks"
          /\ calls[cid].stage = "replied" /\ calls[cid].ok
          /\ Ids(calls[cid].arg.rows) = {"b1", "b2", "b3"}
          /\ calls[cid].arg.rows[1].id = "b3"
          /\ calls[cid].arg.rows[2].id = "b1"
    /\ BlocksOf(pages, "p1")[1].id = "b3"
    /\ dbBlocks["b3"].position = 0
    /\ dbBlocks["b1"].position = 1
    /\ dbBlocks["b2"].position = 2

\* The rows of table blocks that belong to page p.
RowsOf(p) == {b \in DOMAIN dbBlocks : dbBlocks[b].page_id = p}

\* C17: once every mutator call has succeeded and run to its end, with no
\* write of another device, the persisted positions of the blocks of each
\* page are pairwise distinct and are exactly 0 .. n-1.
C17_DensePositions ==
    (calls = <<>> /\ toasts = <<>> /\ nexternal = 0)
    => \A p \in DOMAIN dbPages :
           /\ \A b1, b2 \in RowsOf(p) :
                 dbBlocks[b1].position = dbBlocks[b2].position => b1 = b2
           /\ {dbBlocks[b].position : b \in RowsOf(p)}
                 = 0..(Cardinality(RowsOf(p)) - 1)

\* C18: when deletePage(pageId) has succeeded, the page is removed from the
\* local pages; if it is the active page, the first remaining page becomes
\* active, or none if no page remains; if it is not the active page and
\* pages remain, the selection is unchanged, whatever the user selected while
\* the delete was in flight.
C18_DeletePage ==
    [][\A cid \in DOMAIN calls :
          (calls[cid].kind = "deletePage" /\ HandledSuccess(cid))
          => LET filtered ==
                     SelectSeq(pages, LAMBDA p : p.id # calls[cid].pageId)
             IN  /\ pages' = filtered
                 /\ activePageId' =
                        IF filtered = <<>> THEN NoId
                        ELSE IF activePageId = calls[cid].pageId
                        THEN filtered[1].id
                        ELSE activePageId]_vars

\* C19: the write of updateBlock(pageId, blockId, updates) stores every
\* field that updates provides, with its new value, in the row of the block
\* and leaves every other column of the row as it was; the calling step
\* merges the same fields into the local block.
C19_PartialMerge ==
    [][/\ \A c \in Issued :
            c.kind = "updateBlock"
            => \A j \in DOMAIN BlocksOf(pages', c.pageId) :
                   LET b == BlocksOf(pages', c.pageId)[j]
                   IN  b.id = c.blockId
                       => \A f \in DOMAIN c.updates :
                              f \in DOMAIN b /\ b[f] = c.updates[f]
       /\ \A cid \in DOMAIN calls :
            (/\ calls[cid].kind = "updateBlock"
             /\ Written(cid)
             /\ calls[cid].blockId \in DOMAIN dbBlocks)
            => LET c == calls[cid]
                   old == dbBlocks[c.blockId]
                   new == dbBlocks'[c.blockId]
               IN  /\ \A f \in DOMAIN c.updates :
                         f \in DOMAIN new /\ new[f] = c.updates[f]
                   /\ \A f \in DOMAIN old \ DOMAIN c.updates :
                         f \in DOMAIN new /\ new[f] = old[f]]_vars

\* The local pages and blocks with a given id.
LocalEntity(ps, table, id) ==
    IF table = "pages"
    THEN {ps[i] : i \in {x \in DOMAIN ps : ps[x].id = id}}
    ELSE {ps[i].blocks[j] :
            <<i, j>> \in {x \in (DOMAIN ps) \X (1..4) :
                             /\ x[2] <= Len(ps[x[1]].blocks)
                             /\ ps[x[1]].blocks[x[2]].id = id}}

\* The step that delivers e, an UPDATE event caused by another device for a
\* page or block that exists locally.
RemoteUpdateStep(e) ==
    /\ feed # <<>>
    /\ e = Head(feed)
    /\ feed' = Tail(feed)
    /\ e.type = "UPDATE" /\ e.origin = 0
    /\ LocalEntity(pages, e.table, e.id) # {}

\* new is old with the fields of row overwritten and every other field kept.
Overwritten(old, new, row) ==
    /\ DOMAIN new = DOMAIN old \cup DOMAIN row
    /\ \A f \in DOMAIN row : new[f] = row[f]
    /\ \A f \in DOMAIN old \ DOMAIN row : new[f] = old[f]

\* After the step the entity e targets carries the event's values and every
\* other page and block is as it was.
RemoteWon(e) ==
    /\ Len(pages') = Len(pages)
    /\ \A i \in DOMAIN pages :
          IF e.table = "pages"
          THEN IF pages[i].id = e.id
               THEN Overwritten(pages[i], pages'[i], e.row)
               ELSE pages'[i] = pages[i]
          ELSE /\ [pages'[i] EXCEPT !.blocks = <<>>]
                     = [pages[i] EXCEPT !.blocks = <<>>]
               /\ Len(pages'[i].blocks) = Len(pages[i].blocks)
               /\ \A j \in DOMAIN pages[i].blocks :
                     IF pages[i].blocks[j].id = e.id
                     THEN Overwritten(pages[i].blocks[j],
                                      pages'[i].blocks[j], e.row)
                     ELSE pages'[i].blocks[j] = pages[i].blocks[j]

\* A local edit of the entity e targets is still in flight: its write has
\* not been executed yet.
UnpersistedEdit(e) ==
    \E cid \in DOMAIN calls :
        /\ calls[cid].stage = "sent"
        /\ calls[cid].kind = IF e.table = "pages" THEN "updatePageTitle"
                                                  ELSE "updateBlock"
        /\ e.id = IF e.table = "pages" THEN calls[cid].pageId
                                       ELSE calls[cid].blockId

\* C20 as stated: every UPDATE event caused by another device for a page or
\* block that exists locally is passed to the reconciler and merged on
\* arrival, also while a local edit of the same entity is unpersisted: the
\* fields the event carries equal the remote values afterwards, every other
\* entity is unchanged and nothing is reported to the user.
C20_RemoteWinsOriginal ==
    [][\A e \in Arriving :
          RemoteUpdateStep(e) =>
              /\ lastEvent'.passed
              /\ RemoteWon(e)
              /\ toasts' = toasts]_vars

\* C20 amended: an UPDATE event caused by another device for a page or block
\* that exists locally is merged on arrival, field by field and with no
\* timestamp or version comparison, exactly when no marker for the same
\* collection and id younger than 2000 ms is in place: the fields the event
\* carries then equal the remote values, every other entity is unchanged,
\* the marker is left as it was and nothing is reported to the user. While
\* such a marker is in place (a local edit of the entity was issued less than
\* 2000 ms ago and no event for it has arrived since), the event is dropped,
\* consumes the marker and the local state stays as it was.
C20_RemoteWins ==
    [][\A e \in Arriving :
          RemoteUpdateStep(e) =>
              /\ toasts' = toasts
              /\ activePageId' = activePageId
              /\ IF /\ lastLocalChangeRef.table = e.table
                    /\ lastLocalChangeRef.id = e.id
                    /\ now - lastLocalChangeRef.timestamp < LocalWindow
                 THEN /\ ~lastEvent'.passed
                      /\ pages' = pages
                      /\ lastLocalChangeRef' = NoMarker
                 ELSE /\ lastEvent'.passed
                      /\ RemoteWon(e)
                      /\ lastLocalChangeRef' = lastLocalChangeRef]_vars

\* Another device renamed the page to T2 while updatePageTitle(p1, T1) of
\* this client was still unpersisted, and the event was merged: the marker
\* of the local edit was 2000 ms old by then, and the page shows T2.
C20_Witness ==
    /\ lastEvent.table = "pages" /\ lastEvent.type = "UPDATE"
    /\ lastEvent.origin = 0
    /\ lastEvent.passed
    /\ lastEvent.at = now
    /\ UnpersistedEdit(lastEvent)
    /\ \A pg \in LocalEntity(pages, "pages", lastEvent.id) : pg.title = "T2"
    /\ LocalEntity(pages, "pages", lastEvent.id) # {}

\* The step that delivers e, an INSERT event caused by another device.
RemoteInsertStep(e) ==
    /\ feed # <<>>
    /\ e = Head(feed)
    /\ feed' = Tail(feed)
    /\ e.type = "INSERT" /\ e.origin = 0

\* C21: after an INSERT event that is not an echo has been handled, the page
\* it reports is in the local pages collection, or the block it reports is in
\* the block sequence of its page.
C21_RemoteInserts ==
    [][\A e \in Arriving :
          RemoteInsertStep(e) =>
              IF e.table = "pages"
              THEN e.id \in Ids(pages')
              ELSE \E i \in DOMAIN pages' :
                      /\ pages'[i].id = e.page_id
                      /\ e.id \in Ids(pages'[i].blocks)]_vars

\* The marker in place right after call c was made is one recorded by that
\* call, for an entity the write of c affects: the page or block the call
\* names, or for createPage, addBlock and reorderBlocks a page or block
\* recorded in the calling step.
MarkedAtIssue(c) ==
    /\ lastLocalChangeRef' # NoMarker
    /\ lastLocalChangeRef'.timestamp = c.at
    /\ CASE c.kind \in {"deletePage", "updatePageTitle", "updatePageIcon"} ->
              /\ lastLocalChangeRef'.table = "pages"
              /\ lastLocalChangeRef'.id = c.pageId
         [] c.kind \in {"updateBlock", "deleteBlock"} ->
              /\ lastLocalChangeRef'.table = "blocks"
              /\ lastLocalChangeRef'.id = c.blockId
         [] c.kind = "createPage" ->
              /\ lastLocalChangeRef'.table = "pages"
              /\ lastLocalChangeRef' # lastLocalChangeRef
         [] c.kind = "addBlock" ->
              /\ lastLocalChangeRef'.table = "blocks"
              /\ lastLocalChangeRef' # lastLocalChangeRef
         [] c.kind = "reorderBlocks" ->
              /\ lastLocalChangeRef'.table = "blocks"
              /\ lastLocalChangeRef'.id \in Ids(c.arg.rows)

\* C23: every mutator records its local-change marker before its remote
\* write is issued: in the step that issues the write of a call, a marker for
\* the entity the write affects is in place.
C23_MarkerOrdering ==
    [][\A c \in Issued : MarkedAtIssue(c)]_vars

-----------------------------------------------------------------------------
(* Properties of the orchestrator *)

\* C22: when a mutator has changed pages that were the snapshot at the
\* cursor, the pages then stayed as they were for at least the debounce delay
\* (the timer fired once or more, and nothing else happened), and the user
\* calls undo once, the pages are the ones from immediately before that
\* mutation.
C22_UndoRestores ==
    [][(observed'.op = "undo" /\ observed.fires >= 1 /\ observed.recorded)
          => pages' = observed.before]_vars

\* C24: whenever the debounce timer fires and the orchestrator calls
\* pushState, the pages have changed since its previous call of pushState
\* (or since the load, for the first call).
C24_DebouncedRecording ==
    [][observed'.op = "fire" => observed.dirty]_vars

-----------------------------------------------------------------------------
(* Properties of the subscription and of the load *)

\* At most one channel is subscribed, it is the one of the current user, and
\* none is while there is no user or the component is unmounted.
Subscribed ==
    /\ Cardinality(channels) <= 1
    /\ channels \subseteq {user} \ {NoUser}
    /\ ~mounted => channels = {}

\* The step calls the callback of a channel for the event at the head of
\* the feed.
CallbackStep ==
    /\ feed # <<>>
    /\ feed' = Tail(feed)
    /\ lastEvent' # lastEvent

\* C25: at every moment at most one feed channel is subscribed and it is the
\* one of the current user; none is subscribed without a user; when the user
\* changes, the step that subscribes the new channel has unsubscribed the
\* previous one; after the unmount no channel is subscribed and no callback
\* is called, and a callback is only ever called for an event of the current
\* user.
C25_FeedLifecycle ==
    [][/\ Subscribed
       /\ Subscribed'
       /\ channels' # channels => channels \cap channels' = {}
       /\ CallbackStep => /\ mounted
                          /\ user # NoUser
                          /\ Head(feed).user_id = user]_vars

\* The user has changed from u1 to u2 while the load of u1 was in flight:
\* the only channel is the one of u2, and the event another device caused
\* for u2's page has been delivered through it.
C25_Witness ==
    /\ user = "u2"
    /\ channels = {"u2"}
    /\ \E k \in DOMAIN loads : loads[k].user = "u1"
    /\ lastEvent.type = "UPDATE" /\ lastEvent.id = "p2"

\* Quiescence: no write is in flight and no event is pending.
Quiescent == calls = <<>> /\ feed = <<>>

\* C26: at quiescence, every write having succeeded and every event having
\* been delivered, the local pages equal what a fresh load would produce:
\* the same pages, each with the same blocks (type, content, checked) in the
\* order of their persisted positions; with and without a second device.
C26_ReloadEquivalence ==
    Quiescent => pages = LoadedPages(PagesData(user), user)

\* C27: in every reachable state activePageId is null or the id of a page of
\* the local pages, and an exposed activePage that is not null has the id
\* activePageId; deletePage and remote page DELETE events preserve this.
C27_ActivePage ==
    /\ activePageId = NoId \/ activePageId \in Ids(pages)
    /\ activePage # <<>> => activePage[1].id = activePageId

\* C28: when a mutator has changed the pages and they have stayed unchanged
\* for the debounce delay (the timer started by the edit has fired, with no
\* undo or redo since the edit) and no timer is pending any more, the entry
\* at the history cursor equals the pages; also when the edit was made less
\* than the debounce delay after an undo or a redo.
C28_SettledEditRecorded ==
    (observed.fires >= 1 /\ ~timer.armed) => At(history, currentIndex) = pages

\* The pages of ps are all rows of userId.
OwnedBy(ps, userId) ==
    \A i \in 1..Len(ps) : dbPages[ps[i].id].user_id = userId

\* C29: with no user the pages are empty and no page is active; with a user
\* whose load has completed without an error, whatever load of an earlier
\* identity completed before or after it, the pages and every snapshot of
\* the history hold only pages of that user.
C29_IdentityIsolation ==
    /\ user = NoUser => pages = <<>> /\ activePageId = NoId
    /\ (/\ user # NoUser
        /\ toasts = <<>>
        /\ \A k \in DOMAIN loads : loads[k].user # user)
       => /\ OwnedBy(pages, user)
          /\ \A i \in DOMAIN history : OwnedBy(history[i], user)

\* The step is a call of undo() or redo() of the workspace hook.
UndoRedoStep == observed'.op \in {"undo", "redo"}

\* undo() or redo() is called with nothing to undo or redo.
NothingToReplay ==
    IF observed'.op = "undo" THEN currentIndex <= 0
    ELSE currentIndex >= Len(history) - 1

\* What no call of undo() or redo() touches: the writes in flight, the
\* tables and the feed, the marker, the selection, the stored snapshots.
ReplayFrame ==
    UNCHANGED <<user, calls, ncalls, dbVars, lastLocalChangeRef, now,
                activePageId, history, maxHistory, isInitialLoadRef, loads,
                channels, mounted>>

\* What a call does: nothing when there is nothing to replay, and otherwise
\* the cursor moves by one and the pages become the snapshot at the new cursor.
ReplayEffect ==
    IF NothingToReplay
    THEN UNCHANGED <<pages, currentIndex, isUndoRedoRef, toasts, timer>>
    ELSE /\ currentIndex' = IF observed'.op = "undo" THEN currentIndex - 1
                            ELSE currentIndex + 1
         /\ pages' = At(history, currentIndex')

\* C30 as stated: undo() and redo() change at most the pages and the history
\* cursor: no remote write, no marker, activePageId and the snapshots
\* unchanged, and nothing else either; with nothing to undo or redo they
\* change nothing at all.
C30_LocalOnlyOriginal ==
    [][UndoRedoStep =>
          /\ ReplayFrame
          /\ ReplayEffect
          /\ UNCHANGED <<isUndoRedoRef, toasts>>]_vars

\* C30, amended: undo() and redo() issue no remote write, record no marker
\* and leave activePageId and the stored snapshots unchanged; with nothing
\* to undo or redo they change nothing at all; otherwise they move the
\* cursor by one, replace the pages by the snapshot at the new cursor, set
\* the suppression flag and show a notification.
C30_LocalOnly ==
    [][UndoRedoStep =>
          /\ ReplayFrame
          /\ ReplayEffect
          /\ ~NothingToReplay =>
                /\ isUndoRedoRef'
                /\ Len(toasts') = Len(toasts) + 1]_vars

\* An undo has just replaced edited pages by the snapshot below them, with a
\* write of the edit still in flight and a page selected.
C30_Witness ==
    /\ observed.op = "undo"
    /\ isUndoRedoRef
    /\ currentIndex < Len(history) - 1
    /\ pages = At(history, currentIndex)
    /\ pages # At(history, currentIndex + 1)
    /\ activePageId # NoId
    /\ calls # <<>>
    /\ toasts # <<>>

=============================================================================
